---------------------------- MODULE Spec2Model ----------------------------
(***************************************************************************)
(* Arduino_LowPowerNiclaVision: the standby-entry procedures of the two    *)
(* cores of the STM32H747 (standbyM7, standbyM4), the option-byte gate     *)
(* (checkOptionBytes, prepareOptionBytes) and the hardware registers they  *)
(* act on.  Each core is a sequential program with a position (pc); the    *)
(* hardware (flash controller, RTC flags) takes steps of its own.          *)
(***************************************************************************)
EXTENDS Integers, Sequences, FiniteSets, TLC

(***************************************************************************)
(* Bounds of the model.                                                    *)
(***************************************************************************)
\* Number of library calls the sketch of the M7 core makes.
MaxCalls == 2
\* Number of times the sketch of the M4 core calls standbyM4.
MaxCallsM4 == 1

(***************************************************************************)
(* unsigned long long int: four 16-bit limbs, least significant first.     *)
(***************************************************************************)
Limb == 2^16

U64(n) == <<n % Limb, (n \div Limb) % Limb, 0, 0>>

U64Lt(a, b) ==
    \/ a[4] < b[4]
    \/ a[4] = b[4] /\ a[3] < b[3]
    \/ a[4] = b[4] /\ a[3] = b[3] /\ a[2] < b[2]
    \/ a[4] = b[4] /\ a[3] = b[3] /\ a[2] = b[2] /\ a[1] < b[1]

U64Ge(a, b) == ~U64Lt(a, b)

\* a - b modulo 2^64
U64Sub(a, b) ==
    LET d1 == a[1] - b[1]
        w1 == IF d1 < 0 THEN 1 ELSE 0
        d2 == a[2] - b[2] - w1
        w2 == IF d2 < 0 THEN 1 ELSE 0
        d3 == a[3] - b[3] - w2
        w3 == IF d3 < 0 THEN 1 ELSE 0
        d4 == a[4] - b[4] - w3
    IN  <<d1 % Limb, d2 % Limb, d3 % Limb, d4 % Limb>>

\* x << n in unsigned long long
Shl(x, n) == U64(x * 2^n)

\* RTCWakeupDelay::infinite = ULONG_LONG_MAX
infinite == <<Limb - 1, Limb - 1, Limb - 1, Limb - 1>>

\* Conversion of an unsigned long long to the uint32_t parameter of the LL
\* register setters: the low 32 bits, as <<low half-word, high half-word>>.
ToU32(v) == <<v[1], v[2]>>

U32(n) == <<n % Limb, (n \div Limb) % Limb>>

(***************************************************************************)
(* Registers are sets of bit positions.                                    *)
(***************************************************************************)
Bits32 == 0..31

BitsOf(n) == {i \in 0..30 : (n \div 2^i) % 2 = 1}

\* 0x1f5ffff, the mask cleared in IMR3 / C2IMR3
MaskIMR3 == 32899071
\* 0x3fffff, the bits set in PR1 / C2PR1
MaskPR1 == 4194303
MaskPR2 == {17, 19}
MaskPR3 == {18, 20, 21, 22}
\* 1 << 13, the value written to IMR2 / C2IMR2
ValueIMR2 == {13}
\* EXTI line 19 is the RTC wakeup timer line
EXTI_LINE19 == 19
\* reg |= m read-modify-write of a rc_w1 pending register: the value written
PRWritten(old, m) == old \cup m
\* a rc_w1 register after `written` is stored: written ones clear the flag
W1C(old, written) == old \ written

(***************************************************************************)
(* Names.                                                                  *)
(***************************************************************************)
Cores == {"M7", "M4"}

IRQs == {"RTC_WKUP_IRQn", "OTHER_IRQn"}

ICERName == <<"NVIC->ICER[0]", "NVIC->ICER[1]", "NVIC->ICER[2]", "NVIC->ICER[3]",
              "NVIC->ICER[4]", "NVIC->ICER[5]", "NVIC->ICER[6]", "NVIC->ICER[7]">>
ICPRName == <<"NVIC->ICPR[0]", "NVIC->ICPR[1]", "NVIC->ICPR[2]", "NVIC->ICPR[3]",
              "NVIC->ICPR[4]", "NVIC->ICPR[5]", "NVIC->ICPR[6]", "NVIC->ICPR[7]">>

RECURSIVE NVICLoop(_)
\* for (auto i = 0; i < 8; i++) { NVIC->ICER[i] = ...; NVIC->ICPR[i] = ...; }
NVICLoop(i) ==
    IF i >= 8 THEN <<>> ELSE <<ICERName[i + 1], ICPRName[i + 1]>> \o NVICLoop(i + 1)

\* Variant of ResetOrder with the first two domains swapped (C24 depends on
\* the order)
ResetOrder_AHB1First ==
    <<"AHB1", "AHB3", "AHB2", "APB3", "APB1L", "APB1H", "APB2", "APB4", "AHB4">>

\* The peripheral bus domains in the order standbyM7 resets them
ResetOrder == <<"AHB3", "AHB1", "AHB2", "APB3", "APB1L", "APB1H", "APB2", "APB4", "AHB4">>

ForceName == [d \in {"AHB3", "AHB1", "AHB2", "APB3", "APB1L", "APB1H", "APB2", "APB4", "AHB4"} |->
    CASE d = "AHB3" -> "__HAL_RCC_AHB3_FORCE_RESET"
      [] d = "AHB1" -> "__HAL_RCC_AHB1_FORCE_RESET"
      [] d = "AHB2" -> "__HAL_RCC_AHB2_FORCE_RESET"
      [] d = "APB3" -> "__HAL_RCC_APB3_FORCE_RESET"
      [] d = "APB1L" -> "__HAL_RCC_APB1L_FORCE_RESET"
      [] d = "APB1H" -> "__HAL_RCC_APB1H_FORCE_RESET"
      [] d = "APB2" -> "__HAL_RCC_APB2_FORCE_RESET"
      [] d = "APB4" -> "__HAL_RCC_APB4_FORCE_RESET"
      [] d = "AHB4" -> "__HAL_RCC_AHB4_FORCE_RESET"]

ReleaseName == [d \in {"AHB3", "AHB1", "AHB2", "APB3", "APB1L", "APB1H", "APB2", "APB4", "AHB4"} |->
    CASE d = "AHB3" -> "__HAL_RCC_AHB3_RELEASE_RESET"
      [] d = "AHB1" -> "__HAL_RCC_AHB1_RELEASE_RESET"
      [] d = "AHB2" -> "__HAL_RCC_AHB2_RELEASE_RESET"
      [] d = "APB3" -> "__HAL_RCC_APB3_RELEASE_RESET"
      [] d = "APB1L" -> "__HAL_RCC_APB1L_RELEASE_RESET"
      [] d = "APB1H" -> "__HAL_RCC_APB1H_RELEASE_RESET"
      [] d = "APB2" -> "__HAL_RCC_APB2_RELEASE_RESET"
      [] d = "APB4" -> "__HAL_RCC_APB4_RELEASE_RESET"
      [] d = "AHB4" -> "__HAL_RCC_AHB4_RELEASE_RESET"]

RECURSIVE ResetLoop(_)
ResetLoop(i) ==
    IF i > Len(ResetOrder) THEN <<>>
    ELSE <<ForceName[ResetOrder[i]], ReleaseName[ResetOrder[i]]>> \o ResetLoop(i + 1)

(***************************************************************************)
(* Option bytes: FLASH_OPTSR user bits, as a set of bit names.  The OB_*   *)
(* values are those of the STM32H7 HAL (stm32h7xx_hal_flash_ex.h): each    *)
(* nRST_STDBY bit is 1 for "no reset generated", 0 for "reset generated";  *)
(* BCM4 is 1 for "M4 boot enabled".                                        *)
(***************************************************************************)
UserBits == {"NRST_STBY_D1", "NRST_STBY_D2", "BCM4"}

OB_STDBY_RST_D1 == {}
OB_STDBY_NO_RST_D1 == {"NRST_STBY_D1"}
OB_STDBY_RST_D2 == {}
OB_STDBY_NO_RST_D2 == {"NRST_STBY_D2"}
OB_BCM4_DISABLE == {}
OB_BCM4_ENABLE == {"BCM4"}
OB_USER_NRST_STDBY_D1 == {"NRST_STBY_D1"}
OB_USER_NRST_STDBY_D2 == {"NRST_STBY_D2"}
OB_USER_BCM4 == {"BCM4"}

(***************************************************************************)
(* State.                                                                  *)
(***************************************************************************)
VARIABLES
    pc,          \* each core's position: "idle", a step of a call, "asleep", "reset"
    op,          \* each core's current (or last) library call
    ret,         \* each core's last LowPowerReturnCode, "none" while a call runs
    calls,       \* number of library calls each core has made
    log,         \* hardware operations of each core's current (or last) call
    hal,         \* <<function, status>> of the HAL calls of that call that return one
    standbyReq,  \* <<core, domain>> of every HAL_PWREx_EnterSTANDBYMode issued so far
    wakeupDelay, \* standbyM7's local wakeupDelay
    crit,        \* each core's critical-section nesting count
    flashBusy,   \* banks whose SR has QW, WBNE or BSY set
    flashLock,   \* [cr1, cr2, opt]: FLASH_CR1.LOCK, FLASH_CR2.LOCK, OPTCR.OPTLOCK
    optsr,       \* option bytes in effect (FLASH_OPTSR_CUR user bits)
    optsrPrg,    \* option bytes programmed, in effect after launch (OPTSR_PRG)
    pwr,         \* [d3, vos, pdds]: D3 domain configuration, voltage scale, PDDS bits
    exti,        \* EXTI registers, each a set of bits
    nvic,        \* interrupts enabled in each core's NVIC
    rcc,         \* [lse, rtcsel, rtcen, css, c2flash]
    rtc,         \* RTC registers and flags
    cpucr,       \* sticky flags set in PWR->CPUCR: SBF_D1, SBF_D2, SBF, STOPF
    flagLog,     \* resets of the sticky flags, flags set, wasInCPUMode queries so far
    dly,         \* RTCWakeupDelay objects the sketch has built
    nmi          \* NMI_Handler on the M7: [cause, hsecssf, resume, outcome, count]

progVars == <<pc, op, ret, calls, log, hal, standbyReq, wakeupDelay, crit>>
flashVars == <<flashBusy, flashLock, optsr, optsrPrg>>
hwVars == <<pwr, exti, nvic, rcc, rtc>>
auxVars == <<cpucr, flagLog, dly, nmi>>
vars == <<pc, op, ret, calls, log, hal, standbyReq, wakeupDelay, crit,
          flashBusy, flashLock, optsr, optsrPrg, pwr, exti, nvic, rcc, rtc,
          cpucr, flagLog, dly, nmi>>

\* Delays the sketch passes to standbyM7
DelayInputs ==
    {U64(65535), U64(65536), U64(131071), U64(131072), U64(262143),
     U64(262144), <<0, 0, 1, 0>>, <<Limb - 2, Limb - 1, Limb - 1, Limb - 1>>,
     infinite}

\* Register contents at the time the sketch starts
Profiles == {{0, 13, 17, 19, 22, 25}, Bits32}

ExtiRegs == {"IMR1", "IMR2", "IMR3", "PR1", "PR2", "PR3", "RTSR1",
             "C2IMR1", "C2IMR2", "C2IMR3", "C2PR1", "C2PR2", "C2PR3"}

\* Bits of a pending register that exist (reserved bits read as 0)
PendingBits(r) ==
    CASE r \in {"PR1", "C2PR1"} -> BitsOf(MaskPR1)
      [] r \in {"PR2", "C2PR2"} -> MaskPR2
      [] r \in {"PR3", "C2PR3"} -> MaskPR3
      [] OTHER -> Bits32

\* Nothing has been queried, built or interrupted yet
NoNMI == [cause |-> "none", hsecssf |-> FALSE, resume |-> "none", outcome |-> "none",
          count |-> 0]
NoDelay == [kind |-> "none", args |-> <<>>, out |-> <<>>]

AuxIdle ==
    /\ cpucr = {}
    /\ flagLog = <<>>
    /\ dly = NoDelay
    /\ nmi = NoNMI

\* The cores, flash, option bytes and registers when the sketches start, with
\* `pdds` the PDDS bits of PWR->CPUCR
Booted(pdds) ==
    /\ pc = [c \in Cores |-> "idle"]
    /\ op = [c \in Cores |-> "none"]
    /\ ret = [c \in Cores |-> "none"]
    /\ calls = [c \in Cores |-> 0]
    /\ log = [c \in Cores |-> <<>>]
    /\ hal = [c \in Cores |-> <<>>]
    /\ standbyReq = {}
    /\ wakeupDelay = infinite
    /\ crit = [c \in Cores |-> 0]
    /\ flashBusy \in SUBSET {1, 2}
    /\ flashLock = [cr1 |-> TRUE, cr2 |-> TRUE, opt |-> TRUE]
    /\ optsr \in SUBSET UserBits
    /\ optsrPrg = optsr
    /\ pwr = [d3 |-> "run", vos |-> "VOS0", pdds |-> pdds]
    /\ \E p \in Profiles :
        /\ exti = [r \in ExtiRegs |-> p \cap PendingBits(r)]
        /\ nvic = [c \in Cores |-> IF p = Bits32 THEN IRQs ELSE {"OTHER_IRQn"}]
        /\ rtc = [wp |-> TRUE, init |-> FALSE, initf |-> FALSE,
                  fmt |-> "24h", asynch |-> 127, synch |-> 255,
                  wute |-> (p = Bits32), wutie |-> (p = Bits32),
                  wutwf |-> (p # Bits32), wutf |-> (p = Bits32),
                  wutr |-> U32(65535), wucksel |-> "RTCCLK_DIV16"]
    /\ rcc = [lse |-> FALSE, rtcsel |-> "none", rtcen |-> FALSE, css |-> FALSE,
              c2flash |-> FALSE]

Init == AuxIdle /\ Booted({})

(***************************************************************************)
(* Helpers of the actions.                                                 *)
(***************************************************************************)
\* `return code;` from the running call of core c
Return(c, code) ==
    /\ pc' = [pc EXCEPT ![c] = "idle"]
    /\ ret' = [ret EXCEPT ![c] = code]

Goto(c, label) ==
    /\ pc' = [pc EXCEPT ![c] = label]
    /\ UNCHANGED ret

\* Core c performs `ops`, of which the HAL calls `statuses` return a status
Trace(c, ops, statuses) ==
    /\ log' = [log EXCEPT ![c] = @ \o ops]
    /\ hal' = [hal EXCEPT ![c] = @ \o statuses]

\* Operations that return no status
Logged(c, ops) == Trace(c, ops, <<>>)

\* A call starts: the record of the previous one is dropped
Started(c, ops, statuses) ==
    /\ log' = [log EXCEPT ![c] = ops]
    /\ hal' = [hal EXCEPT ![c] = statuses]

Status(halOk) == IF halOk THEN "HAL_OK" ELSE "HAL_ERROR"

(***************************************************************************)
(* standbyM7                                                               *)
(***************************************************************************)
\* Variant of DelayTooLong with a strict comparison (C1 depends on the >=)
DelayTooLong_Strict(d) == U64Lt(Shl(2, 17), d) /\ infinite # d

\* (wakeupDelay >= (2ULL << 17)) && (RTCWakeupDelay::infinite != wakeupDelay)
DelayTooLong(d) == U64Ge(d, Shl(2, 17)) /\ infinite # d

\* Variant of Finite that does not recognise the sentinel (C3 depends on it)
Finite_Always(d) == TRUE

\* RTCWakeupDelay::infinite != wakeupDelay
Finite(d) == infinite # d

\* The argument of LL_RTC_WAKEUP_SetAutoReload
WakeupReload(d) ==
    IF U64Lt(d, Shl(2, 16)) THEN ToU32(d) ELSE ToU32(U64Sub(d, Shl(2, 16)))

\* The argument of LL_RTC_WAKEUP_SetClock
WakeupClock(d) ==
    IF U64Lt(d, Shl(2, 16)) THEN "LL_RTC_WAKEUPCLOCK_CKSPRE"
    ELSE "LL_RTC_WAKEUPCLOCK_CKSPRE_WUT"

\* Entry: the delay check, then core_util_critical_section_enter()
standbyM7_Call(delay) ==
    /\ pc["M7"] = "idle"
    /\ calls["M7"] < MaxCalls
    /\ calls' = [calls EXCEPT !["M7"] = @ + 1]
    /\ op' = [op EXCEPT !["M7"] = "standbyM7"]
    /\ wakeupDelay' = delay
    /\ IF DelayTooLong(delay)
       THEN /\ Return("M7", "wakeupDelayTooLong")
            /\ Started("M7", <<>>, <<>>)
            /\ UNCHANGED crit
       ELSE /\ pc' = [pc EXCEPT !["M7"] = "waitForFlashReady"]
            /\ ret' = [ret EXCEPT !["M7"] = "none"]
            /\ crit' = [crit EXCEPT !["M7"] = @ + 1]
            /\ Started("M7", <<"core_util_critical_section_enter">>, <<>>)
    /\ UNCHANGED <<standbyReq, flashVars, hwVars>>
    /\ UNCHANGED auxVars

\* Variant of FlashReady that reads FLASH->SR1 only (C18 depends on both banks)
FlashReady_Bank1 == 1 \notin flashBusy

\* while ((FLASH->SR1 & 0x07) || (FLASH->SR2 & 0x07)) ;
FlashReady == flashBusy = {}

\* Where each caller of waitForFlashReady continues
AfterFlashReady(c) == IF c = "M7" THEN "HAL_PWREx_ConfigD3Domain" ELSE "maskC2IMR"

waitForFlashReady(c) ==
    /\ pc[c] = "waitForFlashReady"
    /\ IF FlashReady
       THEN /\ Goto(c, AfterFlashReady(c))
            /\ Logged(c, <<"waitForFlashReady">>)
            /\ UNCHANGED <<op, calls, standbyReq, wakeupDelay, crit, flashVars, hwVars>>
       ELSE UNCHANGED vars
    /\ UNCHANGED auxVars

\* HAL_PWREx_ConfigD3Domain(PWR_D3_DOMAIN_STOP); HAL_PWREx_ControlVoltageScaling(...)
standbyM7_Power ==
    /\ pc["M7"] = "HAL_PWREx_ConfigD3Domain"
    /\ \E halOk \in BOOLEAN :
        /\ Trace("M7", <<"HAL_PWREx_ConfigD3Domain", "HAL_PWREx_ControlVoltageScaling">>,
                       << <<"HAL_PWREx_ControlVoltageScaling", Status(halOk)>> >>)
        /\ IF halOk
           THEN /\ pwr' = [pwr EXCEPT !.d3 = "followCPU", !.vos = "VOS1"]
                /\ Goto("M7", "maskIMR")
           ELSE /\ pwr' = [pwr EXCEPT !.d3 = "followCPU"]
                /\ Return("M7", "voltageScalingFailed")
    /\ UNCHANGED <<op, calls, standbyReq, wakeupDelay, crit, flashVars, exti, nvic, rcc, rtc>>
    /\ UNCHANGED auxVars

\* Variant of MaskedIMR3 that zeroes the register wholesale (C11 depends on
\* the reserved bits being kept)
MaskedIMR3_Zero(old) == {}

\* EXTI->IMR3 &= ~0x1f5ffff
MaskedIMR3(old) == old \ BitsOf(MaskIMR3)

\* EXTI->IMR1 = 0; EXTI->IMR2 = 1 << 13; EXTI->IMR3 &= ~0x1f5ffff;
standbyM7_MaskIMR ==
    /\ pc["M7"] = "maskIMR"
    /\ exti' = [exti EXCEPT !["IMR1"] = {},
                            !["IMR2"] = ValueIMR2,
                            !["IMR3"] = MaskedIMR3(@)]
    /\ Logged("M7", <<"EXTI->IMR1", "EXTI->IMR2", "EXTI->IMR3">>)
    /\ Goto("M7", IF Finite(wakeupDelay) THEN "HAL_EXTI_D1_EventInputConfig" ELSE "clearPR")
    /\ UNCHANGED <<op, calls, standbyReq, wakeupDelay, crit, flashVars, pwr, nvic, rcc, rtc>>
    /\ UNCHANGED auxVars

\* HAL_EXTI_D1_EventInputConfig(EXTI_LINE19, EXTI_MODE_IT, ENABLE): sets
\* line 19 in EXTI->IMR1
standbyM7_EnableWakeupLine ==
    /\ pc["M7"] = "HAL_EXTI_D1_EventInputConfig"
    /\ exti' = [exti EXCEPT !["IMR1"] = @ \cup {EXTI_LINE19}]
    /\ Logged("M7", <<"HAL_EXTI_D1_EventInputConfig">>)
    /\ Goto("M7", "clearPR")
    /\ UNCHANGED <<op, calls, standbyReq, wakeupDelay, crit, flashVars, pwr, nvic, rcc, rtc>>
    /\ UNCHANGED auxVars

\* EXTI->PR1 |= 0x3fffff; EXTI->PR2 |= (1 << 17) | (1 << 19); EXTI->PR3 |= ...
ClearedPR(e, r1, r2, r3) ==
    [e EXCEPT ![r1] = W1C(@, PRWritten(@, BitsOf(MaskPR1))),
              ![r2] = W1C(@, PRWritten(@, MaskPR2)),
              ![r3] = W1C(@, PRWritten(@, MaskPR3))]

\* Variant of standbyM7_ClearPR that leaves the pending registers alone (C21
\* depends on the clear that follows the enabling of the wakeup line)
standbyM7_ClearPR_Skipped ==
    /\ pc["M7"] = "clearPR"
    /\ Logged("M7", <<>>)
    /\ Goto("M7", IF Finite(wakeupDelay) THEN "HAL_RCC_OscConfig" ELSE "clearPRAgain")
    /\ UNCHANGED <<op, calls, standbyReq, wakeupDelay, crit, flashVars, hwVars>>
    /\ UNCHANGED auxVars

standbyM7_ClearPR ==
    /\ pc["M7"] = "clearPR"
    /\ exti' = ClearedPR(exti, "PR1", "PR2", "PR3")
    /\ Logged("M7", <<"EXTI->PR1", "EXTI->PR2", "EXTI->PR3">>)
    /\ Goto("M7", IF Finite(wakeupDelay) THEN "HAL_RCC_OscConfig" ELSE "clearPRAgain")
    /\ UNCHANGED <<op, calls, standbyReq, wakeupDelay, crit, flashVars, pwr, nvic, rcc, rtc>>
    /\ UNCHANGED auxVars

\* Variant of standbyM7_EnableLSE that unmasks the external interrupts again
\* before it returns enableLSEFailed (C19 depends on there being no rollback)
standbyM7_EnableLSE_Rollback ==
    /\ pc["M7"] = "HAL_RCC_OscConfig"
    /\ \E halOk \in BOOLEAN :
        /\ Trace("M7", <<"HAL_RCC_OscConfig">>, << <<"HAL_RCC_OscConfig", Status(halOk)>> >>)
        /\ IF halOk
           THEN /\ rcc' = [rcc EXCEPT !.lse = TRUE]
                /\ UNCHANGED exti
                /\ Goto("M7", "HAL_RCCEx_PeriphCLKConfig")
           ELSE /\ UNCHANGED rcc
                /\ exti' = [exti EXCEPT !["IMR1"] = Bits32]
                /\ Return("M7", "enableLSEFailed")
    /\ UNCHANGED <<op, calls, standbyReq, wakeupDelay, crit, flashVars, pwr, nvic, rtc>>
    /\ UNCHANGED auxVars

\* HAL_RCC_OscConfig(&oscInit) with LSEState = RCC_LSE_ON
standbyM7_EnableLSE ==
    /\ pc["M7"] = "HAL_RCC_OscConfig"
    /\ \E halOk \in BOOLEAN :
        /\ Trace("M7", <<"HAL_RCC_OscConfig">>, << <<"HAL_RCC_OscConfig", Status(halOk)>> >>)
        /\ IF halOk
           THEN /\ rcc' = [rcc EXCEPT !.lse = TRUE]
                /\ Goto("M7", "HAL_RCCEx_PeriphCLKConfig")
           ELSE /\ UNCHANGED rcc
                /\ Return("M7", "enableLSEFailed")
    /\ UNCHANGED <<op, calls, standbyReq, wakeupDelay, crit, flashVars, pwr, exti, nvic, rtc>>
    /\ UNCHANGED auxVars

\* HAL_RCCEx_PeriphCLKConfig(&periphClkInit) with RTCClockSelection = LSE
standbyM7_SelectLSE ==
    /\ pc["M7"] = "HAL_RCCEx_PeriphCLKConfig"
    /\ \E halOk \in BOOLEAN :
        /\ Trace("M7", <<"HAL_RCCEx_PeriphCLKConfig">>,
                       << <<"HAL_RCCEx_PeriphCLKConfig", Status(halOk)>> >>)
        /\ IF halOk
           THEN /\ rcc' = [rcc EXCEPT !.rtcsel = "LSE"]
                /\ Goto("M7", "__HAL_RCC_RTC_ENABLE")
           ELSE /\ UNCHANGED rcc
                /\ Return("M7", "selectLSEFailed")
    /\ UNCHANGED <<op, calls, standbyReq, wakeupDelay, crit, flashVars, pwr, exti, nvic, rtc>>
    /\ UNCHANGED auxVars

\* __HAL_RCC_RTC_ENABLE(); LL_RTC_DisableWriteProtection(RTC); RTC->ISR |= 1 << 7;
standbyM7_EnterInit ==
    /\ pc["M7"] = "__HAL_RCC_RTC_ENABLE"
    /\ rcc' = [rcc EXCEPT !.rtcen = TRUE]
    /\ rtc' = [rtc EXCEPT !.wp = FALSE, !.init = TRUE]
    /\ Logged("M7", <<"__HAL_RCC_RTC_ENABLE", "LL_RTC_DisableWriteProtection", "RTC->ISR|=INIT">>)
    /\ Goto("M7", "waitINITF")
    /\ UNCHANGED <<op, calls, standbyReq, wakeupDelay, crit, flashVars, pwr, exti, nvic>>
    /\ UNCHANGED auxVars

\* while (1U != LL_RTC_IsActiveFlag_INIT(RTC)) ;
standbyM7_WaitInit ==
    /\ pc["M7"] = "waitINITF"
    /\ IF rtc.initf
       THEN /\ Goto("M7", "LL_RTC_SetHourFormat")
            /\ UNCHANGED <<op, calls, log, hal, standbyReq, wakeupDelay, crit, flashVars, hwVars>>
       ELSE UNCHANGED vars
    /\ UNCHANGED auxVars

\* LL_RTC_SetHourFormat; LL_RTC_SetAsynchPrescaler(RTC, 127);
\* LL_RTC_SetSynchPrescaler(RTC, 255); RTC->ISR &= ~(1 << 7);
standbyM7_Prescalers ==
    /\ pc["M7"] = "LL_RTC_SetHourFormat"
    /\ rtc' = [rtc EXCEPT !.fmt = "24h", !.asynch = 127, !.synch = 255, !.init = FALSE]
    /\ Logged("M7", <<"LL_RTC_SetHourFormat", "LL_RTC_SetAsynchPrescaler",
                      "LL_RTC_SetSynchPrescaler", "RTC->ISR&=~INIT">>)
    /\ Goto("M7", "waitINITFclear")
    /\ UNCHANGED <<op, calls, standbyReq, wakeupDelay, crit, flashVars, pwr, exti, nvic, rcc>>
    /\ UNCHANGED auxVars

\* Variant of standbyM7_WaitInitExit that waits for INITF set instead of clear
\* (C25 depends on each loop awaiting the value the hardware goes to)
standbyM7_WaitInitExit_Inverted ==
    /\ pc["M7"] = "waitINITFclear"
    /\ IF rtc.initf
       THEN /\ Goto("M7", "LL_RTC_DisableIT_WUT")
            /\ UNCHANGED <<op, calls, log, hal, standbyReq, wakeupDelay, crit, flashVars, hwVars>>
       ELSE UNCHANGED vars
    /\ UNCHANGED auxVars

\* while (0U != LL_RTC_IsActiveFlag_INIT(RTC)) ;
standbyM7_WaitInitExit ==
    /\ pc["M7"] = "waitINITFclear"
    /\ IF ~rtc.initf
       THEN /\ Goto("M7", "LL_RTC_DisableIT_WUT")
            /\ UNCHANGED <<op, calls, log, hal, standbyReq, wakeupDelay, crit, flashVars, hwVars>>
       ELSE UNCHANGED vars
    /\ UNCHANGED auxVars

\* LL_RTC_DisableIT_WUT(RTC); LL_RTC_WAKEUP_Disable(RTC);
standbyM7_DisableWUT ==
    /\ pc["M7"] = "LL_RTC_DisableIT_WUT"
    /\ rtc' = [rtc EXCEPT !.wutie = FALSE, !.wute = FALSE]
    /\ Logged("M7", <<"LL_RTC_DisableIT_WUT", "LL_RTC_WAKEUP_Disable">>)
    /\ Goto("M7", "waitWUTWF")
    /\ UNCHANGED <<op, calls, standbyReq, wakeupDelay, crit, flashVars, pwr, exti, nvic, rcc>>
    /\ UNCHANGED auxVars

\* Variant of standbyM7_WaitWUTW without the wait (C23 depends on the
\* write-allowed flag being confirmed)
standbyM7_WaitWUTW_NoWait ==
    /\ pc["M7"] = "waitWUTWF"
    /\ Goto("M7", "LL_RTC_WAKEUP_SetAutoReload")
    /\ UNCHANGED <<op, calls, log, hal, standbyReq, wakeupDelay, crit, flashVars, hwVars>>
    /\ UNCHANGED auxVars

\* while (1 != LL_RTC_IsActiveFlag_WUTW(RTC)) ;
standbyM7_WaitWUTW ==
    /\ pc["M7"] = "waitWUTWF"
    /\ IF rtc.wutwf
       THEN /\ Goto("M7", "LL_RTC_WAKEUP_SetAutoReload")
            /\ UNCHANGED <<op, calls, log, hal, standbyReq, wakeupDelay, crit, flashVars, hwVars>>
       ELSE UNCHANGED vars
    /\ UNCHANGED auxVars

\* LL_RTC_WAKEUP_SetAutoReload; LL_RTC_WAKEUP_SetClock; LL_RTC_WAKEUP_Enable;
\* LL_RTC_EnableIT_WUT; __HAL_RTC_WAKEUPTIMER_EXTI_ENABLE_RISING_EDGE;
\* LL_RTC_ClearFlag_WUT; LL_RTC_EnableWriteProtection
standbyM7_SetWakeup ==
    /\ pc["M7"] = "LL_RTC_WAKEUP_SetAutoReload"
    /\ rtc' = [rtc EXCEPT !.wutr = WakeupReload(wakeupDelay),
                          !.wucksel = WakeupClock(wakeupDelay),
                          !.wute = TRUE, !.wutwf = FALSE, !.wutie = TRUE,
                          !.wutf = FALSE, !.wp = TRUE]
    /\ exti' = [exti EXCEPT !["RTSR1"] = @ \cup {EXTI_LINE19}]
    /\ Logged("M7", <<"LL_RTC_WAKEUP_SetAutoReload", "LL_RTC_WAKEUP_SetClock",
                      "LL_RTC_WAKEUP_Enable", "LL_RTC_EnableIT_WUT",
                      "__HAL_RTC_WAKEUPTIMER_EXTI_ENABLE_RISING_EDGE",
                      "LL_RTC_ClearFlag_WUT", "LL_RTC_EnableWriteProtection">>)
    /\ Goto("M7", "clearPRAgain")
    /\ UNCHANGED <<op, calls, standbyReq, wakeupDelay, crit, flashVars, pwr, nvic, rcc>>
    /\ UNCHANGED auxVars

\* Variant of standbyM7_ClearPRAgain that writes EXTI->IMR1 once more after the
\* pending bits are cleared (C20 depends on the masks being written first)
standbyM7_ClearPRAgain_Remask ==
    /\ pc["M7"] = "clearPRAgain"
    /\ exti' = [ClearedPR(exti, "PR1", "PR2", "PR3") EXCEPT !["IMR1"] = @ \ {0}]
    /\ Logged("M7", <<"EXTI->PR1", "EXTI->PR2", "EXTI->PR3", "EXTI->IMR1">>)
    /\ Goto("M7", "NVIC")
    /\ UNCHANGED <<op, calls, standbyReq, wakeupDelay, crit, flashVars, pwr, nvic, rcc, rtc>>
    /\ UNCHANGED auxVars

\* EXTI->PR1 |= 0x3fffff; EXTI->PR2 |= ...; EXTI->PR3 |= ...; (second time)
standbyM7_ClearPRAgain ==
    /\ pc["M7"] = "clearPRAgain"
    /\ exti' = ClearedPR(exti, "PR1", "PR2", "PR3")
    /\ Logged("M7", <<"EXTI->PR1", "EXTI->PR2", "EXTI->PR3">>)
    /\ Goto("M7", "NVIC")
    /\ UNCHANGED <<op, calls, standbyReq, wakeupDelay, crit, flashVars, pwr, nvic, rcc, rtc>>
    /\ UNCHANGED auxVars

\* Variant of standbyM7_NVIC that enables RTC_WKUP_IRQn before the loop, which
\* then disables it again (C22 depends on the loop coming first)
standbyM7_NVIC_EnableFirst ==
    /\ pc["M7"] = "NVIC"
    /\ nvic' = [nvic EXCEPT !["M7"] = {}]
    /\ Logged("M7", (IF Finite(wakeupDelay)
                     THEN <<"HAL_NVIC_SetPriority", "HAL_NVIC_EnableIRQ">> ELSE <<>>)
                    \o NVICLoop(0))
    /\ Goto("M7", "HAL_RCC_EnableCSS")
    /\ UNCHANGED <<op, calls, standbyReq, wakeupDelay, crit, flashVars, pwr, exti, rcc, rtc>>
    /\ UNCHANGED auxVars

\* the NVIC->ICER / ICPR loop, then for a finite delay
\* HAL_NVIC_SetPriority(RTC_WKUP_IRQn, 0x0, 0); HAL_NVIC_EnableIRQ(RTC_WKUP_IRQn);
standbyM7_NVIC ==
    /\ pc["M7"] = "NVIC"
    /\ nvic' = [nvic EXCEPT !["M7"] =
                   IF Finite(wakeupDelay) THEN {"RTC_WKUP_IRQn"} ELSE {}]
    /\ Logged("M7", NVICLoop(0) \o
                    (IF Finite(wakeupDelay)
                     THEN <<"HAL_NVIC_SetPriority", "HAL_NVIC_EnableIRQ">> ELSE <<>>))
    /\ Goto("M7", "HAL_RCC_EnableCSS")
    /\ UNCHANGED <<op, calls, standbyReq, wakeupDelay, crit, flashVars, pwr, exti, rcc, rtc>>
    /\ UNCHANGED auxVars

\* HAL_RCC_EnableCSS();
standbyM7_EnableCSS ==
    /\ pc["M7"] = "HAL_RCC_EnableCSS"
    /\ rcc' = [rcc EXCEPT !.css = TRUE]
    /\ Logged("M7", <<"HAL_RCC_EnableCSS">>)
    /\ Goto("M7", "resetPeripherals")
    /\ UNCHANGED <<op, calls, standbyReq, wakeupDelay, crit, flashVars, pwr, exti, nvic, rtc>>
    /\ UNCHANGED auxVars

\* the nine __HAL_RCC_x_FORCE_RESET / RELEASE_RESET pairs, then
\* RCC_C2->AHB3ENR |= RCC_AHB3ENR_FLASHEN; __DSB(); SCB_CleanDCache();
standbyM7_ResetPeripherals ==
    /\ pc["M7"] = "resetPeripherals"
    /\ rcc' = [rcc EXCEPT !.c2flash = TRUE]
    /\ Logged("M7", ResetLoop(1) \o <<"RCC_C2->AHB3ENR", "__DSB", "SCB_CleanDCache">>)
    /\ Goto("M7", "HAL_PWREx_EnterSTANDBYMode")
    /\ UNCHANGED <<op, calls, standbyReq, wakeupDelay, crit, flashVars, pwr, exti, nvic, rtc>>
    /\ UNCHANGED auxVars

\* The log entry of HAL_PWREx_EnterSTANDBYMode(Domain)
StandbyOp == [d \in {"D1", "D2", "D3"} |->
    CASE d = "D1" -> "HAL_PWREx_EnterSTANDBYMode(PWR_D1_DOMAIN)"
      [] d = "D2" -> "HAL_PWREx_EnterSTANDBYMode(PWR_D2_DOMAIN)"
      [] d = "D3" -> "HAL_PWREx_EnterSTANDBYMode(PWR_D3_DOMAIN)"]

\* HAL_PWREx_EnterSTANDBYMode(Domain) on core c sets the domain's PDDS bit.
\* For D1 and D2 it then sets SLEEPDEEP and executes WFI; for D3 it returns.
EnterSTANDBYMode(c, Domain) ==
    /\ pwr' = [pwr EXCEPT !.pdds = @ \cup {Domain}]
    /\ standbyReq' = standbyReq \cup {<<c, Domain>>}
    /\ Logged(c, <<StandbyOp[Domain]>>)

ExecutesWFI(Domain) == Domain # "D3"

\* The domain standbyM7 requests standby for
M7Domain == "D1"

\* Variant of M7StandbyResult (C9 depends on the failure code)
M7StandbyResult_Success == "success"

\* What standbyM7 returns when HAL_PWREx_EnterSTANDBYMode comes back
M7StandbyResult == "m7StandbyFailed"

\* HAL_PWREx_EnterSTANDBYMode(PWR_D1_DOMAIN): either the core stops at the WFI
\* for good, or execution continues and standbyM7 returns m7StandbyFailed.
standbyM7_EnterStandby ==
    /\ pc["M7"] = "HAL_PWREx_EnterSTANDBYMode"
    /\ EnterSTANDBYMode("M7", M7Domain)
    /\ \E sleeps \in BOOLEAN :
        IF ExecutesWFI(M7Domain) /\ sleeps
        THEN Goto("M7", "asleep")
        ELSE Return("M7", M7StandbyResult)
    /\ UNCHANGED <<op, calls, wakeupDelay, crit, flashVars, exti, nvic, rcc, rtc>>
    /\ UNCHANGED auxVars

(***************************************************************************)
(* standbyM4                                                               *)
(***************************************************************************)
\* Entry: core_util_critical_section_enter()
standbyM4_Call ==
    /\ pc["M4"] = "idle"
    /\ calls["M4"] < MaxCallsM4
    /\ calls' = [calls EXCEPT !["M4"] = @ + 1]
    /\ op' = [op EXCEPT !["M4"] = "standbyM4"]
    /\ pc' = [pc EXCEPT !["M4"] = "waitForFlashReady"]
    /\ ret' = [ret EXCEPT !["M4"] = "none"]
    /\ crit' = [crit EXCEPT !["M4"] = @ + 1]
    /\ Started("M4", <<"core_util_critical_section_enter">>, <<>>)
    /\ UNCHANGED <<standbyReq, wakeupDelay, flashVars, hwVars>>
    /\ UNCHANGED auxVars

\* EXTI->C2IMR1 = 0; EXTI->C2IMR2 = 1 << 13; EXTI->C2IMR3 &= ~0x1f5ffff;
\* EXTI->C2PR1 |= 0x3fffff; EXTI->C2PR2 |= ...; EXTI->C2PR3 |= ...;
\* then the NVIC->ICER / ICPR loop
standbyM4_Quiesce ==
    /\ pc["M4"] = "maskC2IMR"
    /\ exti' = ClearedPR([exti EXCEPT !["C2IMR1"] = {},
                                      !["C2IMR2"] = ValueIMR2,
                                      !["C2IMR3"] = MaskedIMR3(@)],
                         "C2PR1", "C2PR2", "C2PR3")
    /\ nvic' = [nvic EXCEPT !["M4"] = {}]
    /\ Logged("M4", <<"EXTI->C2IMR1", "EXTI->C2IMR2", "EXTI->C2IMR3",
                      "EXTI->C2PR1", "EXTI->C2PR2", "EXTI->C2PR3">> \o NVICLoop(0))
    /\ Goto("M4", "HAL_PWREx_EnterSTANDBYMode_1")
    /\ UNCHANGED <<op, calls, standbyReq, wakeupDelay, crit, flashVars, pwr, rcc, rtc>>
    /\ UNCHANGED auxVars

\* Variant of M4Domains with the requests swapped (C10 depends on the order)
M4Domains_D2First == <<"D2", "D3">>

\* The domains standbyM4 requests standby for, in order
M4Domains == <<"D3", "D2">>

\* What standbyM4 returns when both requests have come back
M4StandbyResult == "m4StandbyFailed"

\* HAL_PWREx_EnterSTANDBYMode(PWR_D3_DOMAIN)
standbyM4_EnterStandbyFirst ==
    /\ pc["M4"] = "HAL_PWREx_EnterSTANDBYMode_1"
    /\ EnterSTANDBYMode("M4", M4Domains[1])
    /\ \E sleeps \in BOOLEAN :
        IF ExecutesWFI(M4Domains[1]) /\ sleeps
        THEN Goto("M4", "asleep")
        ELSE Goto("M4", "HAL_PWREx_EnterSTANDBYMode_2")
    /\ UNCHANGED <<op, calls, wakeupDelay, crit, flashVars, exti, nvic, rcc, rtc>>
    /\ UNCHANGED auxVars

\* HAL_PWREx_EnterSTANDBYMode(PWR_D2_DOMAIN): either the core stops at the WFI
\* for good, or execution continues and standbyM4 returns m4StandbyFailed.
standbyM4_EnterStandbySecond ==
    /\ pc["M4"] = "HAL_PWREx_EnterSTANDBYMode_2"
    /\ EnterSTANDBYMode("M4", M4Domains[2])
    /\ \E sleeps \in BOOLEAN :
        IF ExecutesWFI(M4Domains[2]) /\ sleeps
        THEN Goto("M4", "asleep")
        ELSE Return("M4", M4StandbyResult)
    /\ UNCHANGED <<op, calls, wakeupDelay, crit, flashVars, exti, nvic, rcc, rtc>>
    /\ UNCHANGED auxVars

(***************************************************************************)
(* Power domains (README, Standby Mode): D1 is in standby once the M7 has  *)
(* stopped with PDDS_D1 set, D2 once the M4 has stopped with PDDS_D2 set,  *)
(* D3 follows them when it is allowed to (PDDS_D3) and configured to       *)
(* follow the CPU subsystem; the microcontroller as a whole is in Standby  *)
(* Mode when all three domains are.                                        *)
(***************************************************************************)
\* Variant of ChipStandby that looks at the M7's domain only (C8 depends on
\* all three domains)
ChipStandby_D1Only == pc["M7"] = "asleep" /\ "D1" \in pwr.pdds

D1Standby == pc["M7"] = "asleep" /\ "D1" \in pwr.pdds
D2Standby == pc["M4"] = "asleep" /\ "D2" \in pwr.pdds
D3Standby == D1Standby /\ D2Standby /\ "D3" \in pwr.pdds /\ pwr.d3 = "followCPU"
ChipStandby == D1Standby /\ D2Standby /\ D3Standby

(***************************************************************************)
(* checkOptionBytes, prepareOptionBytes                                    *)
(***************************************************************************)
\* The three tests of checkOptionBytes on flashOBProgramInit.USERConfig
CheckResult(USERConfig) ==
    IF (OB_STDBY_RST_D1 \cap USERConfig) # {} THEN "obNotPrepared"
    ELSE IF (OB_STDBY_RST_D2 \cap USERConfig) # {} THEN "obNotPrepared"
    ELSE IF (OB_BCM4_ENABLE \cap USERConfig) # {} THEN "obNotPrepared"
    ELSE "success"

\* HAL_FLASHEx_OBGetConfig(&flashOBProgramInit); then the three tests
checkOptionBytes ==
    /\ pc["M7"] = "idle"
    /\ calls["M7"] < MaxCalls
    /\ calls' = [calls EXCEPT !["M7"] = @ + 1]
    /\ op' = [op EXCEPT !["M7"] = "checkOptionBytes"]
    /\ Started("M7", <<"HAL_FLASHEx_OBGetConfig">>, <<>>)
    /\ Return("M7", CheckResult(optsr))
    /\ UNCHANGED <<standbyReq, wakeupDelay, crit, flashVars, hwVars>>
    /\ UNCHANGED auxVars

\* flashOBProgramInit.USERType and .USERConfig of prepareOptionBytes
PrepareUSERType == OB_USER_NRST_STDBY_D1 \cup OB_USER_NRST_STDBY_D2 \cup OB_USER_BCM4
PrepareUSERConfig == OB_STDBY_NO_RST_D1 \cup OB_STDBY_NO_RST_D2 \cup OB_BCM4_DISABLE

\* Variant of StageFailCode with one code for every stage (C5 depends on the
\* codes being distinct)
StageFailCode_Generic(stage) == "obUnlockFailed"

\* The code prepareOptionBytes returns when the HAL call `stage` fails
StageFailCode(stage) ==
    CASE stage = "HAL_FLASH_Unlock" -> "flashUnlockFailed"
      [] stage = "HAL_FLASH_OB_Unlock" -> "obUnlockFailed"
      [] stage = "HAL_FLASHEx_OBProgram" -> "obProgramFailed"

\* Entry, and HAL_FLASH_Unlock(): the key sequence is written to each locked
\* bank in turn; HAL_ERROR as soon as a bank stays locked.
prepareOptionBytes_Call ==
    /\ pc["M7"] = "idle"
    /\ calls["M7"] < MaxCalls
    /\ calls' = [calls EXCEPT !["M7"] = @ + 1]
    /\ op' = [op EXCEPT !["M7"] = "prepareOptionBytes"]
    /\ \E open1, open2 \in BOOLEAN :
        LET l1 == flashLock.cr1 /\ ~open1
            l2 == IF l1 THEN flashLock.cr2 ELSE flashLock.cr2 /\ ~open2
            halOk == ~(l1 \/ l2)
        IN  /\ flashLock' = [flashLock EXCEPT !.cr1 = l1, !.cr2 = l2]
            /\ Started("M7", <<"HAL_FLASH_Unlock">>,
                             << <<"HAL_FLASH_Unlock", Status(halOk)>> >>)
            /\ IF halOk
               THEN /\ pc' = [pc EXCEPT !["M7"] = "HAL_FLASH_OB_Unlock"]
                    /\ ret' = [ret EXCEPT !["M7"] = "none"]
               ELSE Return("M7", StageFailCode("HAL_FLASH_Unlock"))
    /\ UNCHANGED <<standbyReq, wakeupDelay, crit, flashBusy, optsr, optsrPrg, hwVars>>
    /\ UNCHANGED auxVars

\* Variant of prepareOptionBytes_OBUnlock that locks the flash control again
\* before it returns obUnlockFailed (C27 depends on that path not locking)
prepareOptionBytes_OBUnlock_Relock ==
    /\ pc["M7"] = "HAL_FLASH_OB_Unlock"
    /\ \E open \in BOOLEAN :
        LET l == flashLock.opt /\ ~open
        IN  IF l
            THEN /\ flashLock' = [flashLock EXCEPT !.opt = l, !.cr1 = TRUE, !.cr2 = TRUE]
                 /\ Trace("M7", <<"HAL_FLASH_OB_Unlock", "HAL_FLASH_Lock">>,
                                << <<"HAL_FLASH_OB_Unlock", Status(~l)>> >>)
                 /\ Return("M7", StageFailCode("HAL_FLASH_OB_Unlock"))
            ELSE /\ flashLock' = [flashLock EXCEPT !.opt = l]
                 /\ Trace("M7", <<"HAL_FLASH_OB_Unlock">>,
                                << <<"HAL_FLASH_OB_Unlock", Status(~l)>> >>)
                 /\ Goto("M7", "HAL_FLASHEx_OBProgram")
    /\ UNCHANGED <<op, calls, standbyReq, wakeupDelay, crit, flashBusy, optsr, optsrPrg, hwVars>>
    /\ UNCHANGED auxVars

\* HAL_FLASH_OB_Unlock()
prepareOptionBytes_OBUnlock ==
    /\ pc["M7"] = "HAL_FLASH_OB_Unlock"
    /\ \E open \in BOOLEAN :
        LET l == flashLock.opt /\ ~open
        IN  /\ flashLock' = [flashLock EXCEPT !.opt = l]
            /\ Trace("M7", <<"HAL_FLASH_OB_Unlock">>,
                           << <<"HAL_FLASH_OB_Unlock", Status(~l)>> >>)
            /\ IF l THEN Return("M7", StageFailCode("HAL_FLASH_OB_Unlock"))
                    ELSE Goto("M7", "HAL_FLASHEx_OBProgram")
    /\ UNCHANGED <<op, calls, standbyReq, wakeupDelay, crit, flashBusy, optsr, optsrPrg, hwVars>>
    /\ UNCHANGED auxVars

\* Variant of Relocked that leaves the option bytes unlocked (C6 depends on
\* both locks)
Relocked_FlashOnly(l) == [l EXCEPT !.cr1 = TRUE, !.cr2 = TRUE]

\* HAL_FLASH_OB_Lock(); HAL_FLASH_Lock();
Relocked(l) == [l EXCEPT !.opt = TRUE, !.cr1 = TRUE, !.cr2 = TRUE]
RelockOps == <<"HAL_FLASH_OB_Lock", "HAL_FLASH_Lock">>

\* HAL_FLASHEx_OBProgram(&flashOBProgramInit), and its failure branch
prepareOptionBytes_OBProgram ==
    /\ pc["M7"] = "HAL_FLASHEx_OBProgram"
    /\ \E halOk \in BOOLEAN :
        IF halOk
        THEN /\ optsrPrg' = (optsrPrg \ PrepareUSERType) \cup PrepareUSERConfig
             /\ Trace("M7", <<"HAL_FLASHEx_OBProgram">>,
                            << <<"HAL_FLASHEx_OBProgram", "HAL_OK">> >>)
             /\ Goto("M7", "HAL_FLASH_OB_Launch")
             /\ UNCHANGED flashLock
        ELSE /\ UNCHANGED optsrPrg
             /\ Trace("M7", <<"HAL_FLASHEx_OBProgram">> \o RelockOps,
                            << <<"HAL_FLASHEx_OBProgram", "HAL_ERROR">> >>)
             /\ flashLock' = Relocked(flashLock)
             /\ Return("M7", StageFailCode("HAL_FLASHEx_OBProgram"))
    /\ UNCHANGED <<op, calls, standbyReq, wakeupDelay, crit, flashBusy, optsr, hwVars>>
    /\ UNCHANGED auxVars

\* Variant of AfterLaunch that trusts the launch status (C7 depends on the
\* status being ignored)
AfterLaunch_ByStatus(status) == IF status = "HAL_OK" THEN "success" ELSE "obLaunchFailed"

\* The code prepareOptionBytes returns when HAL_FLASH_OB_Launch() comes back
\* with `status`
AfterLaunch(status) == "obLaunchFailed"

\* HAL_FLASH_OB_Launch(): either the system resets (nothing runs on), or the
\* call comes back with some status, which the code does not look at; then
\* HAL_FLASH_OB_Lock(); HAL_FLASH_Lock(); return obLaunchFailed
prepareOptionBytes_OBLaunch ==
    /\ pc["M7"] = "HAL_FLASH_OB_Launch"
    /\ \E outcome \in {"reset", "HAL_OK", "HAL_ERROR"} :
        /\ optsr' = IF outcome = "HAL_ERROR" THEN optsr ELSE optsrPrg
        /\ IF outcome = "reset"
           THEN /\ pc' = [c \in Cores |-> "reset"]
                /\ Logged("M7", <<"HAL_FLASH_OB_Launch">>)
                /\ UNCHANGED <<ret, flashLock>>
           ELSE /\ Trace("M7", <<"HAL_FLASH_OB_Launch">> \o RelockOps,
                               << <<"HAL_FLASH_OB_Launch", outcome>> >>)
                /\ flashLock' = Relocked(flashLock)
                /\ Return("M7", AfterLaunch(outcome))
    /\ UNCHANGED <<op, calls, standbyReq, wakeupDelay, crit, flashBusy, optsrPrg, hwVars>>
    /\ UNCHANGED auxVars

(***************************************************************************)
(* wasInCPUMode, resetPreviousCPUModeFlags                                 *)
(***************************************************************************)
\* Number of flag events and queries followed
MaxFlagEvents == 2

\* enum class CPUMode, and a value outside the enumeration
CPUModes == {"d1DomainStandby", "d2DomainStandby", "standby", "stop"}
AnyMode == CPUModes \cup {"other"}

\* The sticky flags of PWR->CPUCR
StickyFlags == {"SBF_D1", "SBF_D2", "SBF", "STOPF"}

\* Variant of FlagOf that reads the D1 flag for the whole-chip mode (C12
\* depends on each mode having its own flag)
FlagOf_D1ForStandby(mode) ==
    CASE mode = "d1DomainStandby" -> "SBF_D1"
      [] mode = "d2DomainStandby" -> "SBF_D2"
      [] mode = "standby" -> "SBF_D1"
      [] mode = "stop" -> "STOPF"

\* The flag each case of the switch tests
FlagOf(mode) ==
    CASE mode = "d1DomainStandby" -> "SBF_D1"
      [] mode = "d2DomainStandby" -> "SBF_D2"
      [] mode = "standby" -> "SBF"
      [] mode = "stop" -> "STOPF"

\* The PDDS bit of each domain in PWR->CPUCR
PDDSBit == [d \in {"D1", "D2", "D3"} |->
    CASE d = "D1" -> "PDDS_D1" [] d = "D2" -> "PDDS_D2" [] d = "D3" -> "PDDS_D3"]

\* PWR->CPUCR as read: the sticky flags and the PDDS bits
ReadCPUCR == cpucr \cup {PDDSBit[d] : d \in pwr.pdds}

\* return PWR->CPUCR & flag; converted to bool, and the default case
WasInCPUModeResult(mode, reg) ==
    IF mode \in CPUModes THEN (reg \cap {FlagOf(mode)}) # {} ELSE FALSE

wasInCPUMode(mode) ==
    /\ Len(flagLog) < MaxFlagEvents
    /\ flagLog' = Append(flagLog, [ev |-> "wasInCPUMode", mode |-> mode,
                                   result |-> WasInCPUModeResult(mode, ReadCPUCR)])
    /\ UNCHANGED <<progVars, flashVars, hwVars, cpucr, dly, nmi>>

\* Variant of ClearedByCSSF that clears the whole-chip flags only (C13
\* depends on all four being cleared)
ClearedByCSSF_ChipOnly == {"SBF", "STOPF"}

\* The flags the hardware clears when 1 is written to CSSF
ClearedByCSSF == {"STOPF", "SBF", "SBF_D1", "SBF_D2"}

\* PWR->CPUCR |= PWR_CPUCR_CSSF: one read and one write; the value written is
\* the value read with CSSF set, so the PDDS bits get the value they had; the
\* flag bits are read-only and CSSF reads back as 0.
resetPreviousCPUModeFlags ==
    /\ Len(flagLog) < MaxFlagEvents
    /\ LET written == ReadCPUCR \cup {"CSSF"}
       IN  /\ pwr' = [pwr EXCEPT !.pdds = {d \in {"D1", "D2", "D3"} : PDDSBit[d] \in written}]
           /\ cpucr' = IF "CSSF" \in written THEN cpucr \ ClearedByCSSF ELSE cpucr
    /\ flagLog' = Append(flagLog, [ev |-> "resetPreviousCPUModeFlags"])
    /\ UNCHANGED <<progVars, flashVars, exti, nvic, rcc, rtc, dly, nmi>>

\* The hardware sets a sticky flag (a domain or the system went through the
\* low-power mode)
HW_SetFlag ==
    /\ Len(flagLog) < MaxFlagEvents
    /\ \E f \in StickyFlags \ cpucr :
        /\ cpucr' = cpucr \cup {f}
        /\ flagLog' = Append(flagLog, [ev |-> "set", flag |-> f])
    /\ UNCHANGED <<progVars, flashVars, hwVars, dly, nmi>>

\* One state of the cores, flash and registers for the specifications that
\* do not run the standby procedures
Quiet(pdds) == Booted(pdds) /\ flashBusy = {} /\ optsr = {} /\ exti["IMR1"] = Bits32

InitFlags ==
    /\ cpucr \in SUBSET StickyFlags
    /\ flagLog = <<>>
    /\ dly = NoDelay
    /\ nmi = NoNMI
    /\ \E pdds \in {{}, {"D1", "D2", "D3"}} : Quiet(pdds)

NextFlags ==
    \/ \E mode \in AnyMode : wasInCPUMode(mode)
    \/ resetPreviousCPUModeFlags
    \/ HW_SetFlag

SpecFlags == InitFlags /\ [][NextFlags]_vars

(***************************************************************************)
(* RTCWakeupDelay: constructor, literals, operator+                        *)
(***************************************************************************)
\* a + b in unsigned long long int (modulo 2^64)
U64Add(a, b) ==
    LET s1 == a[1] + b[1]
        s2 == a[2] + b[2] + (s1 \div Limb)
        s3 == a[3] + b[3] + (s2 \div Limb)
        s4 == a[4] + b[4] + (s3 \div Limb)
    IN  <<s1 % Limb, s2 % Limb, s3 % Limb, s4 % Limb>>

\* a * 60 in unsigned long long int (modulo 2^64)
Mul60(a) ==
    LET p1 == a[1] * 60
        p2 == a[2] * 60 + (p1 \div Limb)
        p3 == a[3] * 60 + (p2 \div Limb)
        p4 == a[4] * 60 + (p3 \div Limb)
    IN  <<p1 % Limb, p2 % Limb, p3 % Limb, p4 % Limb>>

\* RTCWakeupDelay(hours, minutes, seconds):
\*     value(hours * 60 * 60 + minutes * 60 + seconds)
RTCWakeupDelay(hours, minutes, seconds) ==
    U64Add(U64Add(Mul60(Mul60(hours)), Mul60(minutes)), seconds)

\* Variant of operator_plus that keeps its left operand (C15 depends on the sum)
operator_plus_Left(d1, d2) == d1

\* operator+(d1, d2): RTCWakeupDelay(d1.value + d2.value)
operator_plus(d1, d2) == U64Add(d1, d2)

\* operator""_s(seconds): RTCWakeupDelay(seconds)
operator_s(seconds) == seconds

\* operator""_min(minutes): RTCWakeupDelay(minutes * 60)
operator_min(minutes) == Mul60(minutes)

\* Variant of operator_h that multiplies by 60 once (C14 depends on the 3600)
operator_h_Once(hours) == Mul60(hours)

\* operator""_h(hours): RTCWakeupDelay(hours * 60 * 60)
operator_h(hours) == Mul60(Mul60(hours))

\* Values the sketch writes as hours, minutes, seconds or takes as operands
DelayParts ==
    {U64(0), U64(1), U64(59), U64(65535), <<0, 0, 1, 0>>, <<0, 0, 0, Limb \div 2>>,
     infinite}

\* RTCWakeupDelay(h, m, s)
Build_Constructor ==
    \E h, m, s \in DelayParts :
        /\ dly' = [kind |-> "RTCWakeupDelay", args |-> <<h, m, s>>,
                   out |-> <<RTCWakeupDelay(h, m, s)>>]
        /\ UNCHANGED <<progVars, flashVars, hwVars, cpucr, flagLog, nmi>>

\* h_h + m_min + s_s
Build_Literals ==
    \E h, m, s \in DelayParts :
        /\ dly' = [kind |-> "literals", args |-> <<h, m, s>>,
                   out |-> <<operator_plus(operator_plus(operator_h(h), operator_min(m)),
                                           operator_s(s))>>]
        /\ UNCHANGED <<progVars, flashVars, hwVars, cpucr, flagLog, nmi>>

\* d1 + d2, d2 + d1, (d1 + d2) + d3, d1 + (d2 + d3)
Build_Sums ==
    \E d1, d2, d3 \in DelayParts :
        /\ dly' = [kind |-> "operator+", args |-> <<d1, d2, d3>>,
                   out |-> <<operator_plus(d1, d2), operator_plus(d2, d1),
                             operator_plus(operator_plus(d1, d2), d3),
                             operator_plus(d1, operator_plus(d2, d3))>>]
        /\ UNCHANGED <<progVars, flashVars, hwVars, cpucr, flagLog, nmi>>

InitDelay == AuxIdle /\ Quiet({})

NextDelay ==
    \/ Build_Constructor
    \/ Build_Literals
    \/ Build_Sums

SpecDelay == InitDelay /\ [][NextDelay]_vars

(***************************************************************************)
(* Hardware.                                                               *)
(***************************************************************************)
\* A flash bank finishes its operation: QW, WBNE and BSY clear
HW_FlashDone ==
    /\ \E b \in flashBusy : flashBusy' = flashBusy \ {b}
    /\ UNCHANGED <<progVars, flashLock, optsr, optsrPrg, hwVars>>
    /\ UNCHANGED auxVars

\* The RTC follows ISR.INIT with INITF, and a cleared WUTE with WUTWF
HW_RTCFlags ==
    /\ \/ rtc.init /\ ~rtc.initf /\ rtc' = [rtc EXCEPT !.initf = TRUE]
       \/ ~rtc.init /\ rtc.initf /\ rtc' = [rtc EXCEPT !.initf = FALSE]
       \/ ~rtc.wute /\ ~rtc.wutwf /\ rtc' = [rtc EXCEPT !.wutwf = TRUE]
    /\ UNCHANGED <<progVars, flashVars, pwr, exti, nvic, rcc>>
    /\ UNCHANGED auxVars

Next ==
    \/ \E d \in DelayInputs : standbyM7_Call(d)
    \/ \E c \in Cores : waitForFlashReady(c)
    \/ standbyM7_Power
    \/ standbyM7_MaskIMR
    \/ standbyM7_EnableWakeupLine
    \/ standbyM7_ClearPR
    \/ standbyM7_EnableLSE
    \/ standbyM7_SelectLSE
    \/ standbyM7_EnterInit
    \/ standbyM7_WaitInit
    \/ standbyM7_Prescalers
    \/ standbyM7_WaitInitExit
    \/ standbyM7_DisableWUT
    \/ standbyM7_WaitWUTW
    \/ standbyM7_SetWakeup
    \/ standbyM7_ClearPRAgain
    \/ standbyM7_NVIC
    \/ standbyM7_EnableCSS
    \/ standbyM7_ResetPeripherals
    \/ standbyM7_EnterStandby
    \/ standbyM4_Call
    \/ standbyM4_Quiesce
    \/ standbyM4_EnterStandbyFirst
    \/ standbyM4_EnterStandbySecond
    \/ checkOptionBytes
    \/ prepareOptionBytes_Call
    \/ prepareOptionBytes_OBUnlock
    \/ prepareOptionBytes_OBProgram
    \/ prepareOptionBytes_OBLaunch
    \/ HW_FlashDone
    \/ HW_RTCFlags

Spec == Init /\ [][Next]_vars
(***************************************************************************)
(* NMI_Handler                                                             *)
(***************************************************************************)
\* Number of non-maskable interrupts followed
MaxNMI == 1

\* What can raise a non-maskable interrupt: the clock security system, once
\* enabled, on a failure of the HSE; or anything else
NMICauses == IF rcc.css THEN {"HSE failure", "other"} ELSE {"other"}

\* A non-maskable interrupt preempts the M7.  On an HSE failure the hardware
\* sets RCC_CIFR_HSECSSF, but (comment in NMI_Handler) sometimes does not.
HW_RaiseNMI ==
    /\ nmi.count < MaxNMI
    /\ pc["M7"] \notin {"asleep", "reset", "NMI_Handler", "NMI_spin"}
    /\ \E cause \in NMICauses, flag \in BOOLEAN :
        /\ flag => cause = "HSE failure"
        /\ nmi' = [cause |-> cause, hsecssf |-> flag, resume |-> pc["M7"],
                   outcome |-> "none", count |-> nmi.count + 1]
    /\ pc' = [pc EXCEPT !["M7"] = "NMI_Handler"]
    /\ UNCHANGED <<op, ret, calls, log, hal, standbyReq, wakeupDelay, crit,
                   flashVars, hwVars, cpucr, flagLog, dly>>

\* Variant of HandlerReturns that tests the failure flag (C17 is about what
\* the handler tests)
HandlerReturns_ByFlag == nmi.hsecssf

\* if ((RCC->CR) & RCC_CR_CSSHSEON)
HandlerReturns == rcc.css

\* NMI_Handler: LL_RCC_ClearFlag_HSECSS() and return, or for ( ; ; )
NMI_Handler ==
    /\ pc["M7"] = "NMI_Handler"
    /\ IF HandlerReturns
       THEN /\ nmi' = [nmi EXCEPT !.hsecssf = FALSE, !.outcome = "returned"]
            /\ pc' = [pc EXCEPT !["M7"] = nmi.resume]
       ELSE /\ nmi' = [nmi EXCEPT !.outcome = "spinning"]
            /\ pc' = [pc EXCEPT !["M7"] = "NMI_spin"]
    /\ UNCHANGED <<op, ret, calls, log, hal, standbyReq, wakeupDelay, crit,
                   flashVars, hwVars, cpucr, flagLog, dly>>

\* for ( ; ; ) { volatile int dummy = 0; (void) dummy; }
NMI_Spin ==
    /\ pc["M7"] = "NMI_spin"
    /\ UNCHANGED vars

InitNMI == AuxIdle /\ Quiet({})

NextNMI ==
    \/ \E d \in DelayInputs : standbyM7_Call(d)
    \/ waitForFlashReady("M7")
    \/ standbyM7_Power
    \/ standbyM7_MaskIMR
    \/ standbyM7_EnableWakeupLine
    \/ standbyM7_ClearPR
    \/ standbyM7_EnableLSE
    \/ standbyM7_SelectLSE
    \/ standbyM7_EnterInit
    \/ standbyM7_WaitInit
    \/ standbyM7_Prescalers
    \/ standbyM7_WaitInitExit
    \/ standbyM7_DisableWUT
    \/ standbyM7_WaitWUTW
    \/ standbyM7_SetWakeup
    \/ standbyM7_ClearPRAgain
    \/ standbyM7_NVIC
    \/ standbyM7_EnableCSS
    \/ standbyM7_ResetPeripherals
    \/ standbyM7_EnterStandby
    \/ HW_RTCFlags
    \/ HW_RaiseNMI
    \/ NMI_Handler
    \/ NMI_Spin

SpecNMI == InitNMI /\ [][NextNMI]_vars

(***************************************************************************)
(* The standby procedures under fair scheduling: a core that can take its  *)
(* next step takes it, and every polled hardware flag that can take its    *)
(* awaited value eventually does.                                          *)
(***************************************************************************)
\* The steps of a running standbyM7 call
standbyM7_Run ==
    \/ waitForFlashReady("M7")
    \/ standbyM7_Power
    \/ standbyM7_MaskIMR
    \/ standbyM7_EnableWakeupLine
    \/ standbyM7_ClearPR
    \/ standbyM7_EnableLSE
    \/ standbyM7_SelectLSE
    \/ standbyM7_EnterInit
    \/ standbyM7_WaitInit
    \/ standbyM7_Prescalers
    \/ standbyM7_WaitInitExit
    \/ standbyM7_DisableWUT
    \/ standbyM7_WaitWUTW
    \/ standbyM7_SetWakeup
    \/ standbyM7_ClearPRAgain
    \/ standbyM7_NVIC
    \/ standbyM7_EnableCSS
    \/ standbyM7_ResetPeripherals
    \/ standbyM7_EnterStandby

\* The steps of a running standbyM4 call
standbyM4_Run ==
    \/ waitForFlashReady("M4")
    \/ standbyM4_Quiesce
    \/ standbyM4_EnterStandbyFirst
    \/ standbyM4_EnterStandbySecond

InitLive == Init /\ optsr = {}

NextLive ==
    \/ \E d \in DelayInputs : standbyM7_Call(d)
    \/ standbyM4_Call
    \/ standbyM7_Run
    \/ standbyM4_Run
    \/ HW_FlashDone
    \/ HW_RTCFlags

SpecLive ==
    /\ InitLive /\ [][NextLive]_vars
    /\ WF_vars(standbyM7_Run)
    /\ WF_vars(standbyM4_Run)
    /\ WF_vars(HW_FlashDone)
    /\ WF_vars(HW_RTCFlags /\ rtc'.initf # rtc.initf)
    /\ WF_vars(HW_RTCFlags /\ rtc'.wutwf # rtc.wutwf)

(***************************************************************************)
(* Properties.                                                             *)
(***************************************************************************)
Range(q) == {q[i] : i \in 1..Len(q)}

IsPrefix(q, r) == Len(q) <= Len(r) /\ \A i \in 1..Len(q) : q[i] = r[i]

\* Core c takes a step of its program (not the hardware, not the other core)
StepOf(c) == pc'[c] # pc[c] \/ log'[c] # log[c] \/ calls'[c] # calls[c]

\* C1: standbyM7 with a delay of 262144 seconds or more that is not the
\* indefinite sentinel returns wakeupDelayTooLong in the very step of the call,
\* leaving the critical-section count, the flash and every PWR, EXTI, RCC, RTC
\* and NVIC register as they were; with any other delay it never returns
\* wakeupDelayTooLong.
C1_RejectsTooLongUntouched ==
    /\ [][(StepOf("M7") /\ pc["M7"] = "idle" /\ op'["M7"] = "standbyM7") =>
            IF U64Ge(wakeupDelay', U64(262144)) /\ wakeupDelay' # infinite
            THEN /\ pc'["M7"] = "idle"
                 /\ ret'["M7"] = "wakeupDelayTooLong"
                 /\ log'["M7"] = <<>>
                 /\ UNCHANGED <<crit, flashVars, hwVars>>
            ELSE /\ pc'["M7"] # "idle"
                 /\ ret'["M7"] = "none"]_vars
    /\ []((op["M7"] = "standbyM7" /\ ret["M7"] = "wakeupDelayTooLong") =>
            (U64Ge(wakeupDelay, U64(262144)) /\ wakeupDelay # infinite /\ log["M7"] = <<>>))

\* C1 witness: the boundary delay of 262144 seconds has been rejected
C1_Witness ==
    /\ op["M7"] = "standbyM7"
    /\ wakeupDelay = U64(262144)
    /\ ret["M7"] = "wakeupDelayTooLong"

\* C2 (as claimed): once standbyM7 has programmed the wakeup timer, the
\* auto-reload value is d with clock CKSPRE when d < 65536, and d - 65536
\* with clock CKSPRE_WUT when 65536 <= d < 262144.
C2_ReloadSplitsAt65536 ==
    (op["M7"] = "standbyM7" /\ "LL_RTC_WAKEUP_SetAutoReload" \in Range(log["M7"])) =>
        IF U64Lt(wakeupDelay, U64(65536))
        THEN /\ rtc.wutr = ToU32(wakeupDelay)
             /\ rtc.wucksel = "LL_RTC_WAKEUPCLOCK_CKSPRE"
        ELSE /\ rtc.wutr = ToU32(U64Sub(wakeupDelay, U64(65536)))
             /\ rtc.wucksel = "LL_RTC_WAKEUPCLOCK_CKSPRE_WUT"

\* The wakeup-timer steps of standbyM7
TimerOps ==
    {"HAL_EXTI_D1_EventInputConfig", "HAL_RCC_OscConfig", "HAL_RCCEx_PeriphCLKConfig",
     "__HAL_RCC_RTC_ENABLE", "LL_RTC_DisableWriteProtection", "RTC->ISR|=INIT",
     "LL_RTC_SetHourFormat", "LL_RTC_SetAsynchPrescaler", "LL_RTC_SetSynchPrescaler",
     "RTC->ISR&=~INIT", "LL_RTC_DisableIT_WUT", "LL_RTC_WAKEUP_Disable",
     "LL_RTC_WAKEUP_SetAutoReload", "LL_RTC_WAKEUP_SetClock", "LL_RTC_WAKEUP_Enable",
     "LL_RTC_EnableIT_WUT", "__HAL_RTC_WAKEUPTIMER_EXTI_ENABLE_RISING_EDGE",
     "LL_RTC_ClearFlag_WUT", "LL_RTC_EnableWriteProtection",
     "HAL_NVIC_SetPriority", "HAL_NVIC_EnableIRQ"}

\* C3: a standbyM7 call with the indefinite delay performs no wakeup-timer
\* step: none of its steps writes an RTC register, the LSE, RTC clock
\* selection or RTC clock enable, or the rising-edge trigger register; none
\* sets EXTI line 19 in IMR1 or enables RTC_WKUP_IRQn in the M7's NVIC; once
\* IMR1 and the NVIC have been written line 19 and RTC_WKUP_IRQn are off; and
\* the call can only return voltageScalingFailed or m7StandbyFailed.
C3_IndefiniteSkipsTimer ==
    /\ [][(StepOf("M7") /\ op'["M7"] = "standbyM7" /\ wakeupDelay' = infinite) =>
            /\ rtc' = rtc
            /\ rcc'.lse = rcc.lse /\ rcc'.rtcsel = rcc.rtcsel /\ rcc'.rtcen = rcc.rtcen
            /\ exti'["RTSR1"] = exti["RTSR1"]
            /\ (19 \in exti'["IMR1"] => 19 \in exti["IMR1"])
            /\ ("RTC_WKUP_IRQn" \in nvic'["M7"] => "RTC_WKUP_IRQn" \in nvic["M7"])]_vars
    /\ []((op["M7"] = "standbyM7" /\ wakeupDelay = infinite) =>
            /\ Range(log["M7"]) \cap TimerOps = {}
            /\ Range(hal["M7"]) \subseteq
                   {<<"HAL_PWREx_ControlVoltageScaling", "HAL_OK">>,
                    <<"HAL_PWREx_ControlVoltageScaling", "HAL_ERROR">>}
            /\ ("EXTI->IMR1" \in Range(log["M7"]) => 19 \notin exti["IMR1"])
            /\ ("NVIC->ICER[7]" \in Range(log["M7"]) => "RTC_WKUP_IRQn" \notin nvic["M7"])
            /\ ret["M7"] \in {"none", "voltageScalingFailed", "m7StandbyFailed"})

\* C3 witness: an indefinite standbyM7 call went all the way to the D1 standby
\* request and came back
C3_Witness ==
    /\ op["M7"] = "standbyM7"
    /\ wakeupDelay = infinite
    /\ ret["M7"] = "m7StandbyFailed"

\* C4 (as claimed): checkOptionBytes returns success exactly when the option
\* bytes say no reset on D1 standby, no reset on D2 standby and M4 boot
\* disabled, and obNotPrepared for each of the other seven combinations.
C4_SuccessIffAllThreeBits ==
    (op["M7"] = "checkOptionBytes" /\ pc["M7"] = "idle") =>
        /\ ret["M7"] \in {"success", "obNotPrepared"}
        /\ ret["M7"] = "success" <=> optsr = {"NRST_STBY_D1", "NRST_STBY_D2"}

\* The HAL calls of prepareOptionBytes that return a status, in program order
Stages == <<"HAL_FLASH_Unlock", "HAL_FLASH_OB_Unlock", "HAL_FLASHEx_OBProgram",
            "HAL_FLASH_OB_Launch">>

IsStage(o) == o \in Range(Stages)

\* C5: the stages of prepareOptionBytes run in the order flash unlock,
\* option-byte unlock, option-byte program, launch, each at most once and
\* only after every earlier one returned HAL_OK; when stage k fails the call
\* returns that stage's code and no later stage runs.  When the flash unlock
\* fails the call returns flashUnlockFailed having done nothing else.
C5_StagesInOrder ==
    op["M7"] = "prepareOptionBytes" =>
        LET h == hal["M7"]
            n == Len(h)
            failed(k) == pc["M7"] = "idle" /\ n = k /\ h[k][2] = "HAL_ERROR"
        IN  /\ IsPrefix(SelectSeq(log["M7"], IsStage), Stages)
            /\ n = Len(SelectSeq(log["M7"], IsStage)) \/ pc["M7"] = "reset"
            /\ \A k \in 1..n : h[k][1] = Stages[k]
            /\ \A k \in 1..(n - 1) : h[k][2] = "HAL_OK"
            /\ ret["M7"] = "flashUnlockFailed" <=> failed(1)
            /\ ret["M7"] = "obUnlockFailed" <=> failed(2)
            /\ ret["M7"] = "obProgramFailed" <=> failed(3)
            /\ ret["M7"] = "flashUnlockFailed" => log["M7"] = <<"HAL_FLASH_Unlock">>

\* C5 witness: the initial flash unlock failed
C5_Witness ==
    /\ op["M7"] = "prepareOptionBytes"
    /\ hal["M7"] = << <<"HAL_FLASH_Unlock", "HAL_ERROR">> >>
    /\ ret["M7"] = "flashUnlockFailed"

\* C6: when prepareOptionBytes has returned obProgramFailed, the program step
\* was followed by HAL_FLASH_OB_Lock and then HAL_FLASH_Lock and by nothing
\* else, the option bytes and both flash banks are locked, and the launch was
\* not executed.
C6_ProgramFailureRelocks ==
    (op["M7"] = "prepareOptionBytes" /\ ret["M7"] = "obProgramFailed") =>
        /\ log["M7"] = <<"HAL_FLASH_Unlock", "HAL_FLASH_OB_Unlock", "HAL_FLASHEx_OBProgram",
                         "HAL_FLASH_OB_Lock", "HAL_FLASH_Lock">>
        /\ flashLock.opt /\ flashLock.cr1 /\ flashLock.cr2

\* C6 witness: the program step failed after both unlocks succeeded
C6_Witness ==
    /\ op["M7"] = "prepareOptionBytes"
    /\ ret["M7"] = "obProgramFailed"
    /\ <<"HAL_FLASHEx_OBProgram", "HAL_ERROR">> \in Range(hal["M7"])

\* C7: prepareOptionBytes never returns success: a returned call has one of
\* the four failure codes, and after a successful program step the call is
\* either still at the launch, or the system has reset and the call has
\* returned nothing, or it has returned obLaunchFailed, whether the launch
\* reported HAL_OK or HAL_ERROR.
C7_NeverSuccess ==
    op["M7"] = "prepareOptionBytes" =>
        /\ ret["M7"] \in {"none", "flashUnlockFailed", "obUnlockFailed", "obProgramFailed",
                          "obLaunchFailed"}
        /\ pc["M7"] = "idle" => ret["M7"] # "none"
        /\ pc["M7"] = "reset" => ret["M7"] = "none"
        /\ <<"HAL_FLASHEx_OBProgram", "HAL_OK">> \in Range(hal["M7"]) =>
              \/ pc["M7"] \in {"HAL_FLASH_OB_Launch", "reset"}
              \/ pc["M7"] = "idle" /\ ret["M7"] = "obLaunchFailed"
        /\ ret["M7"] = "obLaunchFailed" => "HAL_FLASH_OB_Launch" \in Range(log["M7"])

\* C7 witness: the launch reported HAL_OK, no reset happened and the call
\* returned obLaunchFailed
C7_Witness ==
    /\ op["M7"] = "prepareOptionBytes"
    /\ <<"HAL_FLASH_OB_Launch", "HAL_OK">> \in Range(hal["M7"])
    /\ ret["M7"] = "obLaunchFailed"

C9_M7NeverSuccess ==
    op["M7"] = "standbyM7" =>
        LET requested == "HAL_PWREx_EnterSTANDBYMode(PWR_D1_DOMAIN)" \in Range(log["M7"])
            failed(f) == <<f, "HAL_ERROR">> \in Range(hal["M7"])
        IN  /\ ret["M7"] \in {"none", "wakeupDelayTooLong", "voltageScalingFailed",
                              "enableLSEFailed", "selectLSEFailed", "m7StandbyFailed"}
            /\ pc["M7"] = "idle" <=> ret["M7"] # "none"
            /\ ret["M7"] = "m7StandbyFailed" <=> (requested /\ pc["M7"] # "asleep")
            /\ pc["M7"] = "asleep" => requested
            /\ ret["M7"] = "voltageScalingFailed" <=> failed("HAL_PWREx_ControlVoltageScaling")
            /\ ret["M7"] = "enableLSEFailed" <=> failed("HAL_RCC_OscConfig")
            /\ ret["M7"] = "selectLSEFailed" <=> failed("HAL_RCCEx_PeriphCLKConfig")

\* C9 witness: execution went on after the D1 standby request
C9_Witness ==
    /\ op["M7"] = "standbyM7"
    /\ "HAL_PWREx_EnterSTANDBYMode(PWR_D1_DOMAIN)" \in Range(log["M7"])
    /\ ret["M7"] = "m7StandbyFailed"
    /\ wakeupDelay # infinite

\* Everything standbyM4 does, in order
M4Quiesce ==
    <<"core_util_critical_section_enter", "waitForFlashReady",
      "EXTI->C2IMR1", "EXTI->C2IMR2", "EXTI->C2IMR3",
      "EXTI->C2PR1", "EXTI->C2PR2", "EXTI->C2PR3",
      "NVIC->ICER[0]", "NVIC->ICPR[0]", "NVIC->ICER[1]", "NVIC->ICPR[1]",
      "NVIC->ICER[2]", "NVIC->ICPR[2]", "NVIC->ICER[3]", "NVIC->ICPR[3]",
      "NVIC->ICER[4]", "NVIC->ICPR[4]", "NVIC->ICER[5]", "NVIC->ICPR[5]",
      "NVIC->ICER[6]", "NVIC->ICPR[6]", "NVIC->ICER[7]", "NVIC->ICPR[7]">>

M4Requests ==
    <<"HAL_PWREx_EnterSTANDBYMode(PWR_D3_DOMAIN)", "HAL_PWREx_EnterSTANDBYMode(PWR_D2_DOMAIN)">>

\* C10: standbyM4 does its interrupt quiescing (EXTI masks, EXTI pending
\* bits, the eight NVIC register pairs), then requests standby for D3, then
\* for D2, in that order and nothing else; it returns nothing but
\* m4StandbyFailed, and that exactly when both requests were issued and
\* execution went on.
C10_M4RequestsD3ThenD2 ==
    op["M4"] = "standbyM4" =>
        /\ IsPrefix(log["M4"], M4Quiesce \o M4Requests)
        /\ Len(log["M4"]) > Len(M4Quiesce) => <<"M4", "D3">> \in standbyReq
        /\ Len(log["M4"]) > Len(M4Quiesce) + 1 => <<"M4", "D2">> \in standbyReq
        /\ calls["M4"] = 1 /\ <<"M4", "D2">> \in standbyReq => <<"M4", "D3">> \in standbyReq
        /\ Len(log["M4"]) > Len(M4Quiesce) => nvic["M4"] = {} /\ exti["C2IMR1"] = {}
        /\ ret["M4"] \in {"none", "m4StandbyFailed"}
        /\ ret["M4"] = "m4StandbyFailed" => log["M4"] = M4Quiesce \o M4Requests
        /\ (log["M4"] = M4Quiesce \o M4Requests /\ pc["M4"] = "idle") =>
              ret["M4"] = "m4StandbyFailed"
        /\ pc["M4"] = "asleep" => ret["M4"] = "none"

\* C10 witness: execution went on after both requests and standbyM4 returned
C10_Witness ==
    /\ op["M4"] = "standbyM4"
    /\ log["M4"] = M4Quiesce \o M4Requests
    /\ ret["M4"] = "m4StandbyFailed"

C12_QueryReturnsOwnFlag ==
    [][(Len(flagLog') > Len(flagLog) /\ flagLog'[Len(flagLog')].ev = "wasInCPUMode") =>
          LET q == flagLog'[Len(flagLog')]
          IN  /\ q.result \in BOOLEAN
              /\ q.mode = "d1DomainStandby" => (q.result <=> "SBF_D1" \in cpucr)
              /\ q.mode = "d2DomainStandby" => (q.result <=> "SBF_D2" \in cpucr)
              /\ q.mode = "standby" => (q.result <=> "SBF" \in cpucr)
              /\ q.mode = "stop" => (q.result <=> "STOPF" \in cpucr)
              /\ q.mode \notin {"d1DomainStandby", "d2DomainStandby", "standby", "stop"} =>
                    ~q.result
              /\ cpucr' = cpucr /\ pwr' = pwr]_vars

\* C12 witness: with SBF_D1 and STOPF set and SBF clear, the standby query
\* answered false and then the d1DomainStandby query answered true
C12_Witness ==
    /\ cpucr = {"SBF_D1", "STOPF"}
    /\ flagLog = <<[ev |-> "wasInCPUMode", mode |-> "standby", result |-> FALSE],
                   [ev |-> "wasInCPUMode", mode |-> "d1DomainStandby", result |-> TRUE]>>

\* C13: resetPreviousCPUModeFlags leaves none of the four sticky flags set and
\* every other bit of PWR->CPUCR as it was; and every wasInCPUMode query made
\* after a reset, with no flag set by the hardware in between, answers false.
C13_ResetClearsAllFlags ==
    /\ [][(Len(flagLog') > Len(flagLog) /\
           flagLog'[Len(flagLog')].ev = "resetPreviousCPUModeFlags") =>
             /\ cpucr' \cap {"SBF_D1", "SBF_D2", "SBF", "STOPF"} = {}
             /\ pwr' = pwr]_vars
    /\ [](\A i, j \in 1..Len(flagLog) :
            (/\ i < j
             /\ flagLog[i].ev = "resetPreviousCPUModeFlags"
             /\ flagLog[j].ev = "wasInCPUMode"
             /\ \A k \in (i + 1)..(j - 1) : flagLog[k].ev # "set") => ~flagLog[j].result)

\* C13 witness: all four flags were set and the PDDS bits too; after the
\* reset the d2DomainStandby query answered false and the PDDS bits are still set
C13_Witness ==
    /\ Len(flagLog) = 2
    /\ flagLog[1].ev = "resetPreviousCPUModeFlags"
    /\ flagLog[2] = [ev |-> "wasInCPUMode", mode |-> "d2DomainStandby", result |-> FALSE]
    /\ pwr.pdds = {"D1", "D2", "D3"}
    /\ cpucr = {}

\* Reference arithmetic modulo 2^64 on eight bytes, least significant first
ToBytes(v) ==
    <<v[1] % 256, v[1] \div 256, v[2] % 256, v[2] \div 256,
      v[3] % 256, v[3] \div 256, v[4] % 256, v[4] \div 256>>

FromBytes(b) ==
    <<b[1] + 256 * b[2], b[3] + 256 * b[4], b[5] + 256 * b[6], b[7] + 256 * b[8]>>

RECURSIVE RefScale(_, _, _, _)
RefScale(b, k, i, carry) ==
    IF i > 8 THEN <<>>
    ELSE LET t == b[i] * k + carry
         IN  <<t % 256>> \o RefScale(b, k, i + 1, t \div 256)

RECURSIVE RefSum(_, _, _, _)
RefSum(a, b, i, carry) ==
    IF i > 8 THEN <<>>
    ELSE LET t == a[i] + b[i] + carry
         IN  <<t % 256>> \o RefSum(a, b, i + 1, t \div 256)

RefTimes(v, k) == FromBytes(RefScale(ToBytes(v), k, 1, 0))
RefPlus(v, w) == FromBytes(RefSum(ToBytes(v), ToBytes(w), 1, 0))

\* h * 3600 + m * 60 + s modulo 2^64
Linear(h, m, s) == RefPlus(RefPlus(RefTimes(h, 3600), RefTimes(m, 60)), s)

Small(v) == v[2] = 0 /\ v[3] = 0 /\ v[4] = 0

\* C14: a delay built as RTCWakeupDelay(h, m, s) and a delay built as
\* h_h + m_min + s_s both hold h * 3600 + m * 60 + s modulo 2^64 (and exactly
\* that integer when h, m and s are below 65536).
C14_DelayIsLinearCombination ==
    dly.kind \in {"RTCWakeupDelay", "literals"} =>
        LET h == dly.args[1]
            m == dly.args[2]
            s == dly.args[3]
        IN  /\ dly.out[1] = Linear(h, m, s)
            /\ (Small(h) /\ Small(m) /\ Small(s)) =>
                  dly.out[1] = U64(h[1] * 3600 + m[1] * 60 + s[1])

\* C14 witness: the literal form 65535_h + 59_min + 59_s has been built
C14_Witness ==
    /\ dly.kind = "literals"
    /\ dly.args = <<U64(65535), U64(59), U64(59)>>
    /\ dly.out = <<U64(235929599)>>

\* C15: d1 + d2 holds the sum of the two values modulo 2^64 (exactly the
\* integer sum when both are below 65536), d1 + d2 equals d2 + d1,
\* (d1 + d2) + d3 equals d1 + (d2 + d3), and the operands are what they were.
C15_AdditionSumsSeconds ==
    dly.kind = "operator+" =>
        LET d1 == dly.args[1]
            d2 == dly.args[2]
            d3 == dly.args[3]
        IN  /\ dly.out[1] = RefPlus(d1, d2)
            /\ (Small(d1) /\ Small(d2)) => dly.out[1] = U64(d1[1] + d2[1])
            /\ dly.out[1] = dly.out[2]
            /\ dly.out[3] = dly.out[4]
            /\ dly.out[3] = RefPlus(RefPlus(d1, d2), d3)
            /\ {d1, d2, d3} \subseteq DelayParts

\* C15 witness: 65535 + 59 + 1 has been built both ways
C15_Witness ==
    /\ dly.kind = "operator+"
    /\ dly.args = <<U64(65535), U64(59), U64(1)>>
    /\ dly.out = <<U64(65594), U64(65594), U64(65595), U64(65595)>>

\* C16 (as claimed): no delay built with RTCWakeupDelay(h, m, s), with the
\* literals or with operator+ holds the value of the indefinite sentinel, so
\* standbyM7 would treat every one of them as finite.
C16_SentinelNotConstructible ==
    dly.kind \in {"RTCWakeupDelay", "literals", "operator+"} =>
        \A i \in 1..Len(dly.out) : dly.out[i] # infinite /\ Finite(dly.out[i])

\* C17 (as claimed): whenever NMI_Handler has run, it has cleared the failure
\* flag and returned only if the interrupt was an HSE failure, and for any
\* other non-maskable interrupt it is spinning and has not returned, also
\* after standbyM7 has enabled the clock security system.
C17_SpinsUnlessHSEFailure ==
    /\ nmi.outcome = "returned" => (nmi.cause = "HSE failure" /\ ~nmi.hsecssf)
    /\ (nmi.cause = "other" /\ nmi.outcome # "none") =>
          (nmi.outcome = "spinning" /\ pc["M7"] = "NMI_spin")

StandbyOps == {"standbyM7", "standbyM4"}

\* C18: in a standby call that got past the delay check, the core's first two
\* operations are entering the critical section and waitForFlashReady, which
\* completes only when neither bank is busy; the core writes no power, EXTI,
\* NVIC, RCC or RTC register before that; and the critical section is never
\* left: the nesting count never decreases and is at least 1 from the entry
\* to the power-down (and after a failure return).
C18_CriticalSectionThenFlashReadyFirst ==
    [][\A c \in Cores :
        /\ crit'[c] >= crit[c]
        /\ (op'[c] \in StandbyOps /\ pc'[c] # "idle") => crit'[c] >= 1
        /\ (op'[c] \in StandbyOps /\ log'[c] # log[c]) =>
              /\ log'[c] # <<>> => log'[c][1] = "core_util_critical_section_enter"
              /\ Len(log'[c]) = 1 => crit'[c] = crit[c] + 1
              /\ Len(log'[c]) >= 2 => log'[c][2] = "waitForFlashReady"
              /\ (Len(log'[c]) >= 2 /\ Len(log[c]) = 1 /\ op[c] = op'[c]
                    /\ calls'[c] = calls[c]) => flashBusy = {}
              /\ hwVars' # hwVars =>
                    (Len(log[c]) >= 2 /\ calls'[c] = calls[c])
    ]_vars

C18_Witness ==
    /\ pc["M7"] = "asleep" /\ pc["M4"] = "asleep"
    /\ crit["M7"] >= 1 /\ crit["M4"] >= 1
    /\ log["M7"][2] = "waitForFlashReady" /\ log["M4"][2] = "waitForFlashReady"
    /\ pwr.pdds # {} /\ nvic["M7"] = {} /\ nvic["M4"] = {}

\* The error codes of standbyM7 that C19 says are returned without rollback
NoRollbackCodes == {"voltageScalingFailed", "enableLSEFailed", "selectLSEFailed",
                    "m7StandbyFailed"}

\* C19: in the step in which standbyM7 returns one of the four codes above,
\* what the call did before is still there: the critical section is still
\* held, D3 still follows the CPU subsystem; for the two LSE errors IMR1 holds
\* only line 19, IMR2 only bit 13, IMR3 none of the masked lines, and for
\* selectLSEFailed the LSE is still on; for m7StandbyFailed the interrupt
\* controller is still disabled, the clock security system on and the D1
\* standby request set.  The step that returns wakeupDelayTooLong changes
\* nothing but the call's bookkeeping.
C19_NoRollbackOnError ==
    [][(op'["M7"] = "standbyM7" /\ pc'["M7"] = "idle" /\ StepOf("M7")) =>
        /\ ret'["M7"] \in NoRollbackCodes =>
              /\ crit'["M7"] >= 1 /\ crit'["M7"] >= crit["M7"]
              /\ log'["M7"][1] = "core_util_critical_section_enter"
              /\ pwr'.d3 = "followCPU"
        /\ ret'["M7"] \in {"enableLSEFailed", "selectLSEFailed"} =>
              /\ exti'["IMR1"] = {EXTI_LINE19}
              /\ exti'["IMR2"] = ValueIMR2
              /\ exti'["IMR3"] \cap BitsOf(MaskIMR3) = {}
        /\ ret'["M7"] = "selectLSEFailed" => rcc'.lse
        /\ ret'["M7"] = "m7StandbyFailed" =>
              /\ exti'["IMR1"] = (IF Finite(wakeupDelay') THEN {EXTI_LINE19} ELSE {})
              /\ nvic'["M7"] = (IF Finite(wakeupDelay') THEN {"RTC_WKUP_IRQn"} ELSE {})
              /\ rcc'.css /\ rcc'.c2flash
              /\ "D1" \in pwr'.pdds
        /\ ret'["M7"] = "wakeupDelayTooLong" =>
              /\ log'["M7"] = <<>>
              /\ UNCHANGED <<crit, flashVars, hwVars, standbyReq>>
        /\ ret'["M7"] \in NoRollbackCodes \cup {"wakeupDelayTooLong"}
    ]_vars

\* C19 witness: selectLSEFailed has been returned with the masks cleared,
\* line 19 enabled, the LSE on and the critical section held
C19_Witness ==
    /\ op["M7"] = "standbyM7" /\ pc["M7"] = "idle"
    /\ ret["M7"] = "selectLSEFailed"
    /\ exti["IMR1"] = {EXTI_LINE19}
    /\ rcc.lse
    /\ crit["M7"] >= 1

\* Writes to the interrupt mask registers of the EXTI, to its pending
\* registers, and the writes of the NVIC loop
MaskWrites == {"EXTI->IMR1", "EXTI->IMR2", "EXTI->IMR3",
               "EXTI->C2IMR1", "EXTI->C2IMR2", "EXTI->C2IMR3"}
PendingWrites == {"EXTI->PR1", "EXTI->PR2", "EXTI->PR3",
                  "EXTI->C2PR1", "EXTI->C2PR2", "EXTI->C2PR3"}
NVICWrites == Range(NVICLoop(0))

\* The positions of a record that hold an operation of S
Positions(q, S) == {i \in 1..Len(q) : q[i] \in S}

\* C20: in the record of a standbyM7 or standbyM4 call every mask write comes
\* before every pending-clear write, every mask and pending-clear write comes
\* before every write of the NVIC loop, and nothing after the first
\* pending-clear write is a mask write (the enabling of the wakeup line by
\* HAL_EXTI_D1_EventInputConfig is the only IMR write exempted).
C20_MaskThenPendingThenNVIC ==
    \A c \in Cores : op[c] \in StandbyOps =>
        LET masks    == Positions(log[c], MaskWrites)
            pendings == Positions(log[c], PendingWrites)
            nvics    == Positions(log[c], NVICWrites)
        IN  /\ \A i \in masks, j \in pendings : i < j
            /\ \A i \in masks \cup pendings, j \in nvics : i < j
            /\ \A i \in pendings, j \in masks : ~(i < j)

\* C20 witness: both cores have run their NVIC loop, the M7 with a finite
\* delay, so with the wakeup line enabled and the pending bits cleared twice
C20_Witness ==
    /\ op["M7"] = "standbyM7" /\ op["M4"] = "standbyM4"
    /\ NVICWrites \subseteq Range(log["M7"])
    /\ NVICWrites \subseteq Range(log["M4"])
    /\ MaskWrites \cup PendingWrites \subseteq Range(log["M7"]) \cup Range(log["M4"])
    /\ "HAL_EXTI_D1_EventInputConfig" \in Range(log["M7"])

\* The wakeup-timer configuration proper: TimerOps without the enabling of the
\* wakeup line and of the interrupt at the NVIC
TimerConfigOps == TimerOps \ {"HAL_EXTI_D1_EventInputConfig", "HAL_NVIC_SetPriority",
                              "HAL_NVIC_EnableIRQ"}

\* C21 (as claimed): in a standbyM7 call with a finite delay the whole NVIC
\* loop has run before the wakeup line is enabled, and a call that has gone
\* to sleep has cleared the pending registers three times.
C21_QuiesceBeforeLineThreeClears ==
    (op["M7"] = "standbyM7" /\ Finite(wakeupDelay)) =>
        LET line  == Positions(log["M7"], {"HAL_EXTI_D1_EventInputConfig"})
            nvics == Positions(log["M7"], NVICWrites)
            clear == Positions(log["M7"], {"EXTI->PR1"})
        IN  /\ line # {} =>
                 /\ Cardinality(nvics) = 16
                 /\ \A i \in nvics, j \in line : i < j
            /\ pc["M7"] = "asleep" => Cardinality(clear) = 3

\* C21 (amended): in a standbyM7 call with a finite delay the mask registers
\* are written, then the wakeup line is enabled, then the pending registers
\* are cleared, then the wakeup timer is configured, then the pending
\* registers are cleared again, then the NVIC loop runs, then RTC_WKUP is
\* enabled at the NVIC; the pending registers are cleared twice in total.
C21_LineThenTwoClearsThenNVIC ==
    (op["M7"] = "standbyM7" /\ Finite(wakeupDelay)) =>
        LET masks == Positions(log["M7"], MaskWrites)
            line  == Positions(log["M7"], {"HAL_EXTI_D1_EventInputConfig"})
            clear == Positions(log["M7"], {"EXTI->PR1"})
            timer == Positions(log["M7"], TimerConfigOps)
            nvics == Positions(log["M7"], NVICWrites)
            irq   == Positions(log["M7"], {"HAL_NVIC_EnableIRQ"})
        IN  /\ Cardinality(line) <= 1 /\ Cardinality(clear) <= 2
            /\ \A i \in masks, j \in line : i < j
            /\ \A i \in line, j \in clear \cup timer \cup nvics \cup irq : i < j
            /\ clear # {} => (masks # {} /\ line # {})
            /\ \A t \in timer : Cardinality({i \in clear : i < t}) = 1
            /\ \A i \in clear \cup timer, j \in nvics : i < j
            /\ nvics # {} => Cardinality(clear) = 2
            /\ \A i \in nvics, j \in irq : i < j
            /\ irq # {} => Cardinality(nvics) = 16
            /\ pc["M7"] = "asleep" => (Cardinality(clear) = 2 /\ irq # {} /\ timer # {})

\* C21 witness: a call with a finite delay has gone to sleep with the wakeup
\* line enabled and the wakeup timer running
C21_Witness ==
    /\ op["M7"] = "standbyM7" /\ Finite(wakeupDelay) /\ pc["M7"] = "asleep"
    /\ EXTI_LINE19 \in exti["IMR1"]
    /\ rtc.wute
    /\ nvic["M7"] = {"RTC_WKUP_IRQn"}
    /\ Cardinality(Positions(log["M7"], {"EXTI->PR1"})) = 2

\* The step in which standbyM7 issues HAL_PWREx_EnterSTANDBYMode(PWR_D1_DOMAIN)
M7PowerDown ==
    /\ op["M7"] = "standbyM7"
    /\ Len(log'["M7"]) = Len(log["M7"]) + 1
    /\ log'["M7"][Len(log'["M7"])] = StandbyOp["D1"]

TimerConfigSeq ==
    <<"HAL_RCC_OscConfig", "HAL_RCCEx_PeriphCLKConfig", "__HAL_RCC_RTC_ENABLE",
      "LL_RTC_DisableWriteProtection", "RTC->ISR|=INIT",
      "LL_RTC_SetHourFormat", "LL_RTC_SetAsynchPrescaler", "LL_RTC_SetSynchPrescaler",
      "RTC->ISR&=~INIT", "LL_RTC_DisableIT_WUT", "LL_RTC_WAKEUP_Disable",
      "LL_RTC_WAKEUP_SetAutoReload", "LL_RTC_WAKEUP_SetClock", "LL_RTC_WAKEUP_Enable",
      "LL_RTC_EnableIT_WUT", "__HAL_RTC_WAKEUPTIMER_EXTI_ENABLE_RISING_EDGE",
      "LL_RTC_ClearFlag_WUT", "LL_RTC_EnableWriteProtection">>

TimerConfigSet == Range(TimerConfigSeq)

IsTimerConfigOp(x) == x \in TimerConfigSet

\* The operations that write an RTC register
RTCWrites == TimerConfigSet \
    {"HAL_RCC_OscConfig", "HAL_RCCEx_PeriphCLKConfig", "__HAL_RCC_RTC_ENABLE",
     "__HAL_RTC_WAKEUPTIMER_EXTI_ENABLE_RISING_EDGE"}

\* What a step of the running standbyM7 call adds to its record
NewOpsM7 ==
    IF op["M7"] = "standbyM7" /\ calls'["M7"] = calls["M7"]
          /\ Len(log'["M7"]) > Len(log["M7"])
    THEN {log'["M7"][i] : i \in (Len(log["M7"]) + 1)..Len(log'["M7"])}
    ELSE {}

\* C23: the wakeup-timer operations of a standbyM7 call occur in the order of
\* TimerConfigSeq; the RTC is enabled only with the LSE on and selected; the
\* prescalers are written (127, 255) only with INITF set; the wakeup timer
\* and its interrupt are disabled only with INITF clear again; reload and
\* clock selection are written only with WUTE clear and WUTWF set, and the
\* same step leaves the timer and its interrupt enabled, the wakeup flag
\* clear and the write protection on; a failing HAL_RCC_OscConfig returns
\* enableLSEFailed and a failing HAL_RCCEx_PeriphCLKConfig selectLSEFailed,
\* in both cases with no RTC write in the call.
C23_TimerConfigurationOrder ==
    [][/\ (op'["M7"] = "standbyM7" /\ NewOpsM7 \cap TimerConfigSet # {}) =>
            IsPrefix(SelectSeq(log'["M7"], IsTimerConfigOp), TimerConfigSeq)
       /\ "HAL_RCCEx_PeriphCLKConfig" \in NewOpsM7 => rcc.lse
       /\ "__HAL_RCC_RTC_ENABLE" \in NewOpsM7 =>
            (rcc.lse /\ rcc.rtcsel = "LSE" /\ rcc'.rtcen /\ rtc'.init /\ ~rtc'.wp)
       /\ "LL_RTC_SetAsynchPrescaler" \in NewOpsM7 =>
            (rtc.init /\ rtc.initf /\ ~rtc.wp /\ rtc'.asynch = 127 /\ rtc'.synch = 255
                /\ ~rtc'.init)
       /\ "LL_RTC_DisableIT_WUT" \in NewOpsM7 =>
            (~rtc.initf /\ ~rtc'.wute /\ ~rtc'.wutie)
       /\ "LL_RTC_WAKEUP_SetAutoReload" \in NewOpsM7 =>
            (~rtc.wute /\ rtc.wutwf /\ rtc'.wutr = WakeupReload(wakeupDelay)
                /\ rtc'.wucksel = WakeupClock(wakeupDelay)
                /\ rtc'.wute /\ rtc'.wutie /\ ~rtc'.wutf /\ rtc'.wp)
       /\ (hal'["M7"] # hal["M7"] /\ op'["M7"] = "standbyM7" /\ hal'["M7"] # <<>>) =>
            LET last == hal'["M7"][Len(hal'["M7"])]
            IN  /\ last = <<"HAL_RCC_OscConfig", "HAL_ERROR">> =>
                    (pc'["M7"] = "idle" /\ ret'["M7"] = "enableLSEFailed"
                        /\ Range(log'["M7"]) \cap RTCWrites = {} /\ rtc' = rtc
                        /\ rcc'.rtcen = rcc.rtcen)
                /\ last = <<"HAL_RCCEx_PeriphCLKConfig", "HAL_ERROR">> =>
                    (pc'["M7"] = "idle" /\ ret'["M7"] = "selectLSEFailed"
                        /\ Range(log'["M7"]) \cap RTCWrites = {} /\ rtc' = rtc
                        /\ rcc'.rtcen = rcc.rtcen)
       /\ (op'["M7"] = "standbyM7" /\ ret'["M7"] = "enableLSEFailed") =>
            hal'["M7"][Len(hal'["M7"])] = <<"HAL_RCC_OscConfig", "HAL_ERROR">>
       /\ (op'["M7"] = "standbyM7" /\ ret'["M7"] = "selectLSEFailed") =>
            hal'["M7"][Len(hal'["M7"])] = <<"HAL_RCCEx_PeriphCLKConfig", "HAL_ERROR">>
    ]_vars

\* C23 witness: the whole configuration has run and the timer is armed with
\* write protection back on
C23_Witness ==
    /\ op["M7"] = "standbyM7"
    /\ SelectSeq(log["M7"], IsTimerConfigOp) = TimerConfigSeq
    /\ rtc.wute /\ rtc.wutie /\ ~rtc.wutf /\ rtc.wp
    /\ rcc.lse /\ rcc.rtcsel = "LSE" /\ rcc.rtcen

\* The eighteen reset operations in the order C24 gives
ExpectedResets ==
    <<"__HAL_RCC_AHB3_FORCE_RESET",  "__HAL_RCC_AHB3_RELEASE_RESET",
      "__HAL_RCC_AHB1_FORCE_RESET",  "__HAL_RCC_AHB1_RELEASE_RESET",
      "__HAL_RCC_AHB2_FORCE_RESET",  "__HAL_RCC_AHB2_RELEASE_RESET",
      "__HAL_RCC_APB3_FORCE_RESET",  "__HAL_RCC_APB3_RELEASE_RESET",
      "__HAL_RCC_APB1L_FORCE_RESET", "__HAL_RCC_APB1L_RELEASE_RESET",
      "__HAL_RCC_APB1H_FORCE_RESET", "__HAL_RCC_APB1H_RELEASE_RESET",
      "__HAL_RCC_APB2_FORCE_RESET",  "__HAL_RCC_APB2_RELEASE_RESET",
      "__HAL_RCC_APB4_FORCE_RESET",  "__HAL_RCC_APB4_RELEASE_RESET",
      "__HAL_RCC_AHB4_FORCE_RESET",  "__HAL_RCC_AHB4_RELEASE_RESET">>

ResetOps == Range(ExpectedResets)

\* The domains a record leaves in reset: forced and not released afterwards
HeldInReset(q) ==
    {k \in 1..9 :
        \E i \in Positions(q, {ExpectedResets[2 * k - 1]}) :
            \A j \in Positions(q, {ExpectedResets[2 * k]}) : j < i}

\* C24: in a standbyM7 call the reset operations, once performed, are exactly
\* the eighteen of ExpectedResets, contiguous and in that order, all after
\* HAL_RCC_EnableCSS (with the clock security system on); and when the D1
\* power-down has been issued all eighteen precede it and no domain is held
\* in reset.
C24_CSSThenNineResetsThenPowerDown ==
    op["M7"] = "standbyM7" =>
        LET q      == log["M7"]
            resets == Positions(q, ResetOps)
            css    == Positions(q, {"HAL_RCC_EnableCSS"})
            down   == Positions(q, {StandbyOp["D1"]})
        IN  /\ resets # {} =>
                 /\ css # {} /\ rcc.css
                 /\ \A i \in css, j \in resets : i < j
                 /\ \E i \in resets :
                       /\ resets = i..(i + 17)
                       /\ SubSeq(q, i, i + 17) = ExpectedResets
                 /\ HeldInReset(q) = {}
            /\ down # {} =>
                 /\ Cardinality(resets) = 18
                 /\ \A i \in resets, j \in down : i < j

\* C24 witness: the M7 sleeps after the clock security system was enabled and
\* the nine domains were reset
C24_Witness ==
    /\ op["M7"] = "standbyM7" /\ pc["M7"] = "asleep"
    /\ rcc.css
    /\ Cardinality(Positions(log["M7"], ResetOps)) = 18
    /\ log["M7"][Len(log["M7"])] = StandbyOp["D1"]

\* A core is inside a standby call
Running(c) == op[c] \in StandbyOps /\ pc[c] \notin {"idle", "asleep"}

\* A core is at a polling loop whose awaited flag value is absent
Polling(c) ==
    \/ pc[c] = "waitForFlashReady" /\ flashBusy # {}
    \/ c = "M7" /\ pc[c] = "waitINITF" /\ ~rtc.initf
    \/ c = "M7" /\ pc[c] = "waitINITFclear" /\ rtc.initf
    \/ c = "M7" /\ pc[c] = "waitWUTWF" /\ ~rtc.wutwf

\* C25: under fair scheduling every running standby call leads to the core
\* asleep (power-down issued) or idle again with an error code; and a core
\* at a polling loop whose flag has not its awaited value stays there, with
\* nothing returned and nothing added to its record.
C25_RunsToCompletion ==
    /\ \A c \in Cores :
          Running(c) ~> (/\ pc[c] \in {"idle", "asleep"}
                         /\ pc[c] = "idle" => ret[c] \notin {"none", "success"}
                         /\ pc[c] = "asleep" => StandbyOp[IF c = "M7" THEN "D1" ELSE "D2"]
                                                   \in Range(log[c]))
    /\ [][\A c \in Cores :
            Polling(c) => (pc'[c] = pc[c] /\ ret'[c] = ret[c] /\ log'[c] = log[c])]_vars

\* C25 witness: the M7 has gone through the flash wait and the three RTC
\* waits and sleeps, and the M4's call has returned its error code
C25_Witness ==
    /\ op["M7"] = "standbyM7" /\ pc["M7"] = "asleep" /\ rtc.wute /\ rtc.wp
    /\ op["M4"] = "standbyM4" /\ pc["M4"] = "idle" /\ ret["M4"] = "m4StandbyFailed"

\* The bits C26 calls reserved in IMR3 and C2IMR3
ClaimedReservedIMR3 == (25..31) \cup {19, 18}

\* C26 (as claimed): a step that writes IMR3 or C2IMR3 leaves bits 31:25, 19
\* and 18 as they were and every other bit 0.
C26_KeepsBits18And19 ==
    [][/\ "EXTI->IMR3" \in NewOpsM7 =>
            exti'["IMR3"] = exti["IMR3"] \cap ClaimedReservedIMR3
       /\ (op["M4"] = "standbyM4" /\ log'["M4"] # log["M4"]
              /\ "EXTI->C2IMR3" \in Range(log'["M4"])
              /\ "EXTI->C2IMR3" \notin Range(log["M4"])) =>
            exti'["C2IMR3"] = exti["C2IMR3"] \cap ClaimedReservedIMR3
    ]_vars

LockOps == {"HAL_FLASH_OB_Lock", "HAL_FLASH_Lock"}

\* C27: in the step in which prepareOptionBytes returns, obUnlockFailed
\* leaves both flash control registers unlocked and the option bytes locked
\* with no lock operation performed; flashUnlockFailed comes with no lock
\* operation either, the locks being as HAL_FLASH_Unlock left them; a lock
\* operation is performed only on the obProgramFailed and obLaunchFailed
\* returns, which leave everything locked.
C27_LockStateOnReturn ==
    [][(op'["M7"] = "prepareOptionBytes" /\ pc'["M7"] = "idle" /\ StepOf("M7")) =>
        LET locked == Range(log'["M7"]) \cap LockOps # {}
        IN  /\ ret'["M7"] = "obUnlockFailed" =>
                 /\ ~locked
                 /\ ~flashLock'.cr1 /\ ~flashLock'.cr2 /\ flashLock'.opt
            /\ ret'["M7"] = "flashUnlockFailed" =>
                 /\ ~locked
                 /\ flashLock'.cr1 \/ flashLock'.cr2
                 /\ flashLock'.cr1 => flashLock.cr1
                 /\ flashLock'.cr2 => flashLock.cr2
                 /\ flashLock'.opt = flashLock.opt
            /\ ret'["M7"] \in {"obProgramFailed", "obLaunchFailed"} =>
                 /\ LockOps \subseteq Range(log'["M7"])
                 /\ flashLock'.cr1 /\ flashLock'.cr2 /\ flashLock'.opt
            /\ locked => ret'["M7"] \in {"obProgramFailed", "obLaunchFailed"}
    ]_vars

\* C27 witness: obUnlockFailed has been returned with the flash control left
\* unlocked
C27_Witness ==
    /\ op["M7"] = "prepareOptionBytes" /\ pc["M7"] = "idle"
    /\ ret["M7"] = "obUnlockFailed"
    /\ ~flashLock.cr1 /\ ~flashLock.cr2 /\ flashLock.opt
    /\ Range(log["M7"]) \cap LockOps = {}

\* Seconds the selected wakeup clock adds to the reload value: none for
\* ck_spre, 2^16 for ck_spre with WUT extended by 2^16
ClockOffset(sel) == IF sel = "LL_RTC_WAKEUPCLOCK_CKSPRE_WUT" THEN 65536 ELSE 0

=============================================================================
